---- MODULE Spec2Model ----
(***************************************************************************)
(* Model of the authorization engine of gcp-iam-emulator: the in-memory   *)
(* policy store (internal/storage), its role catalog, group registry,     *)
(* condition evaluator and the TestIamPermissions decision procedure.     *)
(*                                                                         *)
(* Go strings are TLA+ strings; the string helpers below compute what the *)
(* Go `strings` functions compute, character by character.  A nil pointer *)
(* or an absent value is the empty tuple <<>>; a present condition is the *)
(* one-element tuple <<expression>>.                                       *)
(***************************************************************************)
EXTENDS Integers, Sequences, FiniteSets, TLC

VARIABLES
    policies,            \* s.policies : resource name -> policy
    groups,              \* s.groups : group name -> list of members
    customRoles,         \* s.customRoles : role id -> list of permissions
    allowUnknownRoles,   \* the strict/compat switch set by SetAllowUnknownRoles
    readers,             \* s.mu : the clients holding the read lock
    calls,               \* per client: the TestIamPermissions call in progress
    nOps,                \* number of calls started so far (bounded)
    last                 \* the latest completed call and what it returned

vars == <<policies, groups, customRoles, allowUnknownRoles,
          readers, calls, nOps, last>>

storeVars == <<policies, groups, customRoles, allowUnknownRoles>>

-----------------------------------------------------------------------------
(* Go's strings package, on TLA+ strings.                                  *)

\* strings.HasPrefix
HasPrefix(s, prefix) ==
    /\ Len(prefix) <= Len(s)
    /\ SubSeq(s, 1, Len(prefix)) = prefix

\* strings.TrimPrefix
TrimPrefix(s, prefix) ==
    IF HasPrefix(s, prefix) THEN SubSeq(s, Len(prefix) + 1, Len(s)) ELSE s

\* the 0-based offsets at which substr occurs in s
Occurrences(s, substr) ==
    { i \in 0..(Len(s) - Len(substr)) : SubSeq(s, i + 1, i + Len(substr)) = substr }

Min(S) == CHOOSE x \in S : \A y \in S : x <= y
Max(S) == CHOOSE x \in S : \A y \in S : x >= y

\* strings.Index : first occurrence, -1 when there is none
Index(s, substr) ==
    IF Occurrences(s, substr) = {} THEN -1 ELSE Min(Occurrences(s, substr))

\* strings.LastIndex : last occurrence, -1 when there is none
LastIndex(s, substr) ==
    IF Occurrences(s, substr) = {} THEN -1 ELSE Max(Occurrences(s, substr))

\* strings.Contains
Contains(s, substr) == Occurrences(s, substr) # {}

\* Go slice expression s[lo:hi] (0-based, hi exclusive)
Slice(s, lo, hi) == SubSeq(s, lo + 1, hi)

\* strings.Split for a non-empty separator
RECURSIVE Split(_, _)
Split(s, sep) ==
    IF Index(s, sep) = -1
    THEN <<s>>
    ELSE <<Slice(s, 0, Index(s, sep))>>
         \o Split(Slice(s, Index(s, sep) + Len(sep), Len(s)), sep)

\* strings.Join
RECURSIVE Join(_, _)
Join(parts, sep) ==
    IF Len(parts) = 0 THEN ""
    ELSE IF Len(parts) = 1 THEN parts[1]
    ELSE parts[1] \o sep \o Join(Tail(parts), sep)

\* strings.TrimSpace, for the space character
RECURSIVE TrimLeft(_)
TrimLeft(s) ==
    IF HasPrefix(s, " ") THEN TrimLeft(SubSeq(s, 2, Len(s))) ELSE s

RECURSIVE TrimRight(_)
TrimRight(s) ==
    IF Len(s) > 0 /\ SubSeq(s, Len(s), Len(s)) = " "
    THEN TrimRight(SubSeq(s, 1, Len(s) - 1)) ELSE s

TrimSpace(s) == TrimRight(TrimLeft(s))

\* the elements of a list
Range(seq) == { seq[i] : i \in 1..Len(seq) }

-----------------------------------------------------------------------------
(* Role catalog.                                                           *)

builtInRoles ==
    [ r \in { "roles/owner", "roles/editor", "roles/viewer",
              "roles/secretmanager.admin",
              "roles/secretmanager.secretAccessor",
              "roles/secretmanager.secretVersionManager",
              "roles/cloudkms.admin",
              "roles/cloudkms.cryptoKeyEncrypterDecrypter",
              "roles/cloudkms.viewer" } |->
      CASE r = "roles/owner" ->
             << "secretmanager.secrets.get", "secretmanager.secrets.create",
                "secretmanager.secrets.update", "secretmanager.secrets.delete",
                "secretmanager.secrets.list", "secretmanager.versions.add",
                "secretmanager.versions.get", "secretmanager.versions.access",
                "secretmanager.versions.list", "secretmanager.versions.enable",
                "secretmanager.versions.disable", "secretmanager.versions.destroy",
                "cloudkms.keyRings.create", "cloudkms.keyRings.get",
                "cloudkms.keyRings.list", "cloudkms.cryptoKeys.create",
                "cloudkms.cryptoKeys.get", "cloudkms.cryptoKeys.list",
                "cloudkms.cryptoKeys.update", "cloudkms.cryptoKeys.encrypt",
                "cloudkms.cryptoKeys.decrypt", "cloudkms.cryptoKeyVersions.create",
                "cloudkms.cryptoKeyVersions.get", "cloudkms.cryptoKeyVersions.list",
                "cloudkms.cryptoKeyVersions.update",
                "cloudkms.cryptoKeyVersions.destroy" >>
        [] r = "roles/editor" ->
             << "secretmanager.secrets.get", "secretmanager.secrets.create",
                "secretmanager.secrets.update", "secretmanager.secrets.list",
                "secretmanager.versions.add", "secretmanager.versions.get",
                "secretmanager.versions.access", "secretmanager.versions.list",
                "secretmanager.versions.enable", "secretmanager.versions.disable",
                "cloudkms.keyRings.get", "cloudkms.keyRings.list",
                "cloudkms.cryptoKeys.create", "cloudkms.cryptoKeys.get",
                "cloudkms.cryptoKeys.list", "cloudkms.cryptoKeys.update",
                "cloudkms.cryptoKeys.encrypt", "cloudkms.cryptoKeys.decrypt",
                "cloudkms.cryptoKeyVersions.create", "cloudkms.cryptoKeyVersions.get",
                "cloudkms.cryptoKeyVersions.list",
                "cloudkms.cryptoKeyVersions.update" >>
        [] r = "roles/viewer" ->
             << "secretmanager.secrets.get", "secretmanager.secrets.list",
                "secretmanager.versions.get", "secretmanager.versions.list",
                "cloudkms.keyRings.get", "cloudkms.keyRings.list",
                "cloudkms.cryptoKeys.get", "cloudkms.cryptoKeys.list",
                "cloudkms.cryptoKeyVersions.get",
                "cloudkms.cryptoKeyVersions.list" >>
        [] r = "roles/secretmanager.admin" ->
             << "secretmanager.secrets.get", "secretmanager.secrets.create",
                "secretmanager.secrets.update", "secretmanager.secrets.delete",
                "secretmanager.secrets.list", "secretmanager.versions.add",
                "secretmanager.versions.get", "secretmanager.versions.access",
                "secretmanager.versions.list", "secretmanager.versions.enable",
                "secretmanager.versions.disable",
                "secretmanager.versions.destroy" >>
        [] r = "roles/secretmanager.secretAccessor" ->
             << "secretmanager.versions.access" >>
        [] r = "roles/secretmanager.secretVersionManager" ->
             << "secretmanager.versions.add", "secretmanager.versions.get",
                "secretmanager.versions.list", "secretmanager.versions.enable",
                "secretmanager.versions.disable",
                "secretmanager.versions.destroy" >>
        [] r = "roles/cloudkms.admin" ->
             << "cloudkms.keyRings.create", "cloudkms.keyRings.get",
                "cloudkms.keyRings.list", "cloudkms.cryptoKeys.create",
                "cloudkms.cryptoKeys.get", "cloudkms.cryptoKeys.list",
                "cloudkms.cryptoKeys.update", "cloudkms.cryptoKeys.encrypt",
                "cloudkms.cryptoKeys.decrypt", "cloudkms.cryptoKeyVersions.create",
                "cloudkms.cryptoKeyVersions.get", "cloudkms.cryptoKeyVersions.list",
                "cloudkms.cryptoKeyVersions.update",
                "cloudkms.cryptoKeyVersions.destroy" >>
        [] r = "roles/cloudkms.cryptoKeyEncrypterDecrypter" ->
             << "cloudkms.cryptoKeys.encrypt", "cloudkms.cryptoKeys.decrypt" >>
        [] r = "roles/cloudkms.viewer" ->
             << "cloudkms.keyRings.get", "cloudkms.keyRings.list",
                "cloudkms.cryptoKeys.get", "cloudkms.cryptoKeys.list",
                "cloudkms.cryptoKeyVersions.get",
                "cloudkms.cryptoKeyVersions.list" >> ]

\* A result ([]string, bool) of the role catalog
RoleResult(perms, ok) == [perms |-> perms, ok |-> ok]

wildcardRolePermissions(role, permission) ==
    IF ~HasPrefix(role, "roles/")
    THEN RoleResult(<<>>, FALSE)
    ELSE LET roleName   == TrimPrefix(role, "roles/")
             permPrefix == Split(permission, ".")[1]
         IN  IF Contains(roleName, permPrefix)
             THEN RoleResult(<<permission>>, TRUE)
             ELSE RoleResult(<<>>, FALSE)

\* the lookup with the first two tiers swapped
getRolePermissions_BuiltInFirst(role, permission) ==
    IF role \in DOMAIN builtInRoles
    THEN RoleResult(builtInRoles[role], TRUE)
    ELSE IF role \in DOMAIN customRoles
    THEN RoleResult(customRoles[role], TRUE)
    ELSE wildcardRolePermissions(role, permission)

getRolePermissions(role, permission) ==
    IF role \in DOMAIN customRoles
    THEN RoleResult(customRoles[role], TRUE)
    ELSE IF role \in DOMAIN builtInRoles
    THEN RoleResult(builtInRoles[role], TRUE)
    ELSE wildcardRolePermissions(role, permission)

-----------------------------------------------------------------------------
(* Group registry and principal matching.                                  *)

\* the group walk following one more level of nesting
principalMatches_ThreeLevels(principal, member) ==
    \/ principal = member
    \/ member = "allUsers"
    \/ member = "allAuthenticatedUsers"
    \/ /\ HasPrefix(member, "group:")
       /\ TrimPrefix(member, "group:") \in DOMAIN groups
       /\ \E m1 \in Range(groups[TrimPrefix(member, "group:")]) :
             \/ m1 = principal
             \/ /\ HasPrefix(m1, "group:")
                /\ TrimPrefix(m1, "group:") \in DOMAIN groups
                /\ \E m2 \in Range(groups[TrimPrefix(m1, "group:")]) :
                      \/ m2 = principal
                      \/ /\ HasPrefix(m2, "group:")
                         /\ TrimPrefix(m2, "group:") \in DOMAIN groups
                         /\ principal \in Range(groups[TrimPrefix(m2, "group:")])

principalMatches(principal, member) ==
    \/ principal = member
    \/ member = "allUsers"
    \/ member = "allAuthenticatedUsers"
    \/ /\ HasPrefix(member, "group:")
       /\ LET groupName == TrimPrefix(member, "group:")
          IN  /\ groupName \in DOMAIN groups
              /\ \E i \in 1..Len(groups[groupName]) :
                    LET groupMember == groups[groupName][i]
                    IN  \/ groupMember = principal
                        \/ /\ HasPrefix(groupMember, "group:")
                           /\ LET nestedGroupName == TrimPrefix(groupMember, "group:")
                              IN  /\ nestedGroupName \in DOMAIN groups
                                  /\ \E j \in 1..Len(groups[nestedGroupName]) :
                                        groups[nestedGroupName][j] = principal

-----------------------------------------------------------------------------
(* Condition evaluator (cel.go).                                           *)

\* A result (bool, string) of the evaluator
CondResult(result, reason) == [result |-> result, reason |-> reason]

EvalContext(resourceName, resourceType, requestTime) ==
    [ResourceName |-> resourceName, ResourceType |-> resourceType,
     RequestTime |-> requestTime]

\* time.Parse(time.RFC3339, _) on the timestamps the model uses: instants are
\* integers, and any other text is a parse error (not in the domain).
ParseRFC3339 ==
    [ t \in { "2030-01-01T00:00:00Z" } |-> 2 ]

evalStartsWith(expr, resourceName) ==
    LET start == Index(expr, "\"")
        end   == LastIndex(expr, "\"")
    IN  IF start = -1 \/ end = -1 \/ start >= end
        THEN CondResult(FALSE, "invalid startsWith syntax")
        ELSE LET prefix == Slice(expr, start + 1, end)
             IN  IF HasPrefix(resourceName, prefix)
                 THEN CondResult(TRUE, "resource.name starts with")
                 ELSE CondResult(FALSE, "resource.name does not start with")

evalResourceType(expr, resourceType) ==
    LET start == Index(expr, "\"")
        end   == LastIndex(expr, "\"")
    IN  IF start = -1 \/ end = -1 \/ start >= end
        THEN CondResult(FALSE, "invalid resource.type syntax")
        ELSE LET expectedType == Slice(expr, start + 1, end)
             IN  IF resourceType = expectedType
                 THEN CondResult(TRUE, "resource.type matches")
                 ELSE CondResult(FALSE, "resource.type does not match")

evalRequestTime(exprStr, requestTime) ==
    LET start0 == Index(exprStr, "timestamp(\"")
    IN  IF start0 = -1
        THEN CondResult(FALSE, "invalid request.time syntax")
        ELSE
        LET start == start0 + Len("timestamp(\"")
            end   == Index(Slice(exprStr, start, Len(exprStr)), "\"")
        IN  IF end = -1
            THEN CondResult(FALSE, "invalid timestamp format")
            ELSE
            LET timestampStr == Slice(exprStr, start, start + end)
            IN  IF timestampStr \notin DOMAIN ParseRFC3339
                THEN CondResult(FALSE, "invalid timestamp")
                ELSE
                LET targetTime    == ParseRFC3339[timestampStr]
                    isLessThan    == Contains(exprStr, "<")
                    isGreaterThan == Contains(exprStr, ">")
                IN  IF isLessThan
                    THEN IF requestTime < targetTime
                         THEN CondResult(TRUE, "request.time <")
                         ELSE CondResult(FALSE, "request.time >=")
                    ELSE IF isGreaterThan
                    THEN IF requestTime > targetTime
                         THEN CondResult(TRUE, "request.time >")
                         ELSE CondResult(FALSE, "request.time <=")
                    ELSE CondResult(FALSE, "request.time expression must use < or >")

\* condition is <<>> (nil) or <<expression>>
evaluateCondition(condition, ctx) ==
    IF condition = <<>>
    THEN CondResult(TRUE, "no condition")
    ELSE LET expr == TrimSpace(condition[1])
         IN  IF expr = ""
             THEN CondResult(TRUE, "empty condition")
             ELSE IF Contains(expr, "resource.name.startsWith")
             THEN evalStartsWith(expr, ctx.ResourceName)
             ELSE IF Contains(expr, "resource.type")
             THEN evalResourceType(expr, ctx.ResourceType)
             ELSE IF Contains(expr, "request.time")
             THEN evalRequestTime(expr, ctx.RequestTime)
             ELSE CondResult(FALSE, "unsupported CEL expression")

extractResourceType(resourceName) ==
    IF Contains(resourceName, "/secrets/") THEN "SECRET"
    ELSE IF Contains(resourceName, "/cryptoKeys/") THEN "CRYPTO_KEY"
    ELSE IF Contains(resourceName, "/keyRings/") THEN "KEY_RING"
    ELSE "UNKNOWN"

-----------------------------------------------------------------------------
(* Decision engine.                                                        *)

\* A result (bool, string) of hasPermission
Decision(decision, reason) == [decision |-> decision, reason |-> reason]

\* the role of binding b grants the permission: the `for _, p := range perms`
\* scan of hasPermission
roleGrants(b, permission) ==
    LET rp == getRolePermissions(b.role, permission)
    IN  rp.ok /\ permission \in Range(rp.perms)

\* hasPermission, principal == "" : the loop over the bindings from index i
RECURSIVE noPrincipalLoop(_, _, _)
noPrincipalLoop(bindings, i, permission) ==
    IF i > Len(bindings)
    THEN Decision(FALSE, "no role grants permission (no principal provided)")
    ELSE IF roleGrants(bindings[i], permission)
    THEN Decision(TRUE, "matched role (no principal check)")
    ELSE noPrincipalLoop(bindings, i + 1, permission)

\* the loop returning at the first binding whose role does not grant
RECURSIVE principalLoop_ReturnOnOtherRole(_, _, _, _, _)
principalLoop_ReturnOnOtherRole(bindings, i, principal, permission, evalCtx) ==
    IF i > Len(bindings)
    THEN Decision(FALSE, "no matching binding found for principal")
    ELSE LET binding == bindings[i]
         IN  IF ~roleGrants(binding, permission)
             THEN Decision(FALSE, "no matching binding found for principal")
             ELSE IF \E m \in 1..Len(binding.members) :
                        principalMatches(principal, binding.members[m])
             THEN IF binding.condition # <<>>
                  THEN LET c == evaluateCondition(binding.condition, evalCtx)
                       IN  IF ~c.result
                           THEN Decision(FALSE, "condition failed")
                           ELSE Decision(TRUE, "matched binding (condition)")
                  ELSE Decision(TRUE, "matched binding")
             ELSE principalLoop_ReturnOnOtherRole(bindings, i + 1, principal,
                                                  permission, evalCtx)

\* the loop going on to the next binding when a condition fails
RECURSIVE principalLoop_SkipFailedCondition(_, _, _, _, _)
principalLoop_SkipFailedCondition(bindings, i, principal, permission, evalCtx) ==
    IF i > Len(bindings)
    THEN Decision(FALSE, "no matching binding found for principal")
    ELSE LET binding == bindings[i]
         IN  IF /\ roleGrants(binding, permission)
                /\ \E m \in 1..Len(binding.members) :
                      principalMatches(principal, binding.members[m])
                /\ evaluateCondition(binding.condition, evalCtx).result
             THEN Decision(TRUE, "matched binding")
             ELSE principalLoop_SkipFailedCondition(bindings, i + 1, principal,
                                                    permission, evalCtx)

\* the loop letting the last granting, matching binding decide
RECURSIVE principalLoop_LastMatchDecides(_, _, _, _, _)
principalLoop_LastMatchDecides(bindings, i, principal, permission, evalCtx) ==
    IF i > Len(bindings)
    THEN Decision(FALSE, "no matching binding found for principal")
    ELSE LET binding == bindings[i]
             later   == principalLoop_LastMatchDecides(bindings, i + 1, principal,
                                                       permission, evalCtx)
         IN  IF later.reason # "no matching binding found for principal"
             THEN later
             ELSE IF ~roleGrants(binding, permission)
             THEN later
             ELSE IF \E m \in 1..Len(binding.members) :
                        principalMatches(principal, binding.members[m])
             THEN IF binding.condition # <<>>
                  THEN LET c == evaluateCondition(binding.condition, evalCtx)
                       IN  IF ~c.result
                           THEN Decision(FALSE, "condition failed")
                           ELSE Decision(TRUE, "matched binding (condition)")
                  ELSE Decision(TRUE, "matched binding")
             ELSE later

\* hasPermission, principal # "" : the loop over the bindings from index i
RECURSIVE principalLoop(_, _, _, _, _)
principalLoop(bindings, i, principal, permission, evalCtx) ==
    IF i > Len(bindings)
    THEN Decision(FALSE, "no matching binding found for principal")
    ELSE LET binding == bindings[i]
         IN  IF ~roleGrants(binding, permission)
             THEN principalLoop(bindings, i + 1, principal, permission, evalCtx)
             ELSE IF \E m \in 1..Len(binding.members) :
                        principalMatches(principal, binding.members[m])
             THEN IF binding.condition # <<>>
                  THEN LET c == evaluateCondition(binding.condition, evalCtx)
                       IN  IF ~c.result
                           THEN Decision(FALSE, "condition failed")
                           ELSE Decision(TRUE, "matched binding (condition)")
                  ELSE Decision(TRUE, "matched binding")
             ELSE principalLoop(bindings, i + 1, principal, permission, evalCtx)

\* hasPermission without the branch for the empty principal
hasPermission_NoLegacyBranch(policy, principal, permission, evalCtx) ==
    principalLoop(policy.bindings, 1, principal, permission, evalCtx)

hasPermission(policy, principal, permission, evalCtx) ==
    IF principal = ""
    THEN noPrincipalLoop(policy.bindings, 1, permission)
    ELSE principalLoop(policy.bindings, 1, principal, permission, evalCtx)

\* the walk preferring the uppermost stored ancestor
RECURSIVE resolveParents_RootFirst(_)
resolveParents_RootFirst(parts) ==
    IF Len(parts) > 2
    THEN LET shorter        == SubSeq(parts, 1, Len(parts) - 2)
             parentResource == Join(shorter, "/")
             upper          == resolveParents_RootFirst(shorter)
         IN  IF upper # <<>>
             THEN upper
             ELSE IF parentResource \in DOMAIN policies
             THEN policies[parentResource]
             ELSE <<>>
    ELSE <<>>

\* resolvePolicy: the stored policy, or <<>> for nil.  `parts` is the list of
\* segments still to be shortened.
RECURSIVE resolveParents(_)
resolveParents(parts) ==
    IF Len(parts) > 2
    THEN LET shorter        == SubSeq(parts, 1, Len(parts) - 2)
             parentResource == Join(shorter, "/")
         IN  IF parentResource \in DOMAIN policies
             THEN policies[parentResource]
             ELSE resolveParents(shorter)
    ELSE <<>>

\* the lookup consulting the ancestors before the resource itself
resolvePolicy_ParentsFirst(resource) ==
    IF resolveParents(Split(resource, "/")) # <<>>
    THEN resolveParents(Split(resource, "/"))
    ELSE IF resource \in DOMAIN policies
    THEN policies[resource]
    ELSE <<>>

resolvePolicy(resource) ==
    IF resource \in DOMAIN policies
    THEN policies[resource]
    ELSE resolveParents(Split(resource, "/"))

\* the `for _, perm := range permissions` loop of TestIamPermissions
RECURSIVE allowedLoop(_, _, _, _)
allowedLoop(policy, principal, permissions, evalCtx) ==
    IF permissions = <<>>
    THEN <<>>
    ELSE (IF hasPermission(policy, principal, Head(permissions), evalCtx).decision
          THEN <<Head(permissions)>> ELSE <<>>)
         \o allowedLoop(policy, principal, Tail(permissions), evalCtx)

\* TestIamPermissions building the context from the project of the resource
TestIamPermissionsAt_ContextOfProject(resource, principal, permissions, now) ==
    LET policy  == resolvePolicy(resource)
        project == Join(SubSeq(Split(resource, "/"), 1,
                               Min({2, Len(Split(resource, "/"))})), "/")
    IN  IF policy = <<>>
        THEN <<>>
        ELSE allowedLoop(policy, principal, permissions,
                         EvalContext(project, extractResourceType(project), now))

\* TestIamPermissions as a function of the store and of time.Now()
TestIamPermissionsAt(resource, principal, permissions, now) ==
    LET policy == resolvePolicy(resource)
    IN  IF policy = <<>>
        THEN <<>>
        ELSE allowedLoop(policy, principal, permissions,
                         EvalContext(resource, extractResourceType(resource), now))

-----------------------------------------------------------------------------
(* Policy store: normalisation and etag.                                   *)

\* *iampb.Policy
Policy(version, bindings, auditConfigs, etag) ==
    [version |-> version, bindings |-> bindings,
     auditConfigs |-> auditConfigs, etag |-> etag]

\* *iampb.Binding; condition is <<>> or <<expression>>
Binding(role, members, condition) ==
    [role |-> role, members |-> members, condition |-> condition]

\* generateEtag: base64(sha256(json.Marshal(policy))).  The digest is taken as
\* collision free, so the etag is the tuple of the fields json.Marshal writes:
\* version, bindings, audit configs and the etag the object carries.
generateEtag(policy) ==
    <<policy.version, policy.bindings, policy.auditConfigs, policy.etag>>

\* SetIamPolicy lines 93-95, LoadPolicies lines 124-126
normalizeVersion(policy) ==
    IF policy.version = 0 THEN [policy EXCEPT !.version = 1] ELSE policy

\* SetIamPolicy lines 97-105: the version-3 validation fails
emptyConditionAtV3(policy) ==
    /\ policy.version = 3
    /\ \E i \in 1..Len(policy.bindings) :
          /\ policy.bindings[i].condition # <<>>
          /\ policy.bindings[i].condition[1] = ""

\* a store that keeps bindings only
storedPolicy_BindingsOnly(policy) ==
    LET p == [normalizeVersion(policy) EXCEPT !.auditConfigs = <<>>]
    IN  [p EXCEPT !.etag = generateEtag(p)]

\* the policy object after lines 93-107 of a successful SetIamPolicy
storedPolicy(policy) ==
    LET p == normalizeVersion(policy)
    IN  [p EXCEPT !.etag = generateEtag(p)]

\* a Go map with one more entry
MapSet(m, k, v) == [x \in DOMAIN m \cup {k} |-> IF x = k THEN v ELSE m[x]]

EmptyMap == [x \in {} |-> <<>>]

-----------------------------------------------------------------------------
(* Bounds and the inputs the model draws from.                             *)

MaxBindings == 2     \* longest binding list of a policy drawn in InitPure
MaxOps      == 3     \* calls started in one behaviour of Spec
MaxNesting  == 3     \* groups in the chain of nested groups of GroupConfigs

Callers == { "c1", "c2" }

PrincipalInputs ==
    { "", "user:alice", "user:bob", "user:carol", "group:eng" }

MemberInputs ==
    { "user:alice", "allUsers", "group:eng", "group:ops", "group:ghost" }

\* the chain of nested groups and the user each of them holds directly
ChainGroups == << "eng", "ops", "sec", "qa" >>
ChainUsers  == << "user:alice", "user:bob", "user:carol", "user:dave" >>

GroupChain ==
    [ g \in { ChainGroups[i] : i \in 1..MaxNesting } |->
        LET i == CHOOSE j \in 1..MaxNesting : ChainGroups[j] = g
        IN  << ChainUsers[i] >>
              \o (IF i < MaxNesting
                  THEN << "group:" \o ChainGroups[i + 1] >> ELSE <<>>) ]

\* the principals and members principalMatches is applied to
MatchPrincipals ==
    PrincipalInputs \cup { ChainUsers[i] : i \in 1..MaxNesting }
                    \cup { "group:" \o ChainGroups[i] : i \in 1..MaxNesting }

MatchMembers ==
    MemberInputs \cup { "group:" \o ChainGroups[i] : i \in 1..MaxNesting }

PermissionInputs ==
    { "secretmanager.secrets.get", "secretmanager.versions.access",
      "custom.permission.read", "cloudkms.cryptoKeys.get" }

PermissionListInputs ==
    { <<"secretmanager.secrets.get">>,
      <<"custom.permission.read">>,
      <<"secretmanager.versions.access", "secretmanager.secrets.get">> }

RoleInputs ==
    { "roles/viewer", "roles/secretmanager.secretAccessor",
      "roles/custom.definedRole", "roles/custom.unknownRole",
      "roles/secretmanager.customRole", "roles/storage.objectViewer",
      "roles/storage.secretmanagerViewer", "secretmanager.viewer" }

\* no group; eng -> [alice, group:ops], ops -> [bob, group:sec],
\* sec -> [carol]; a group that names itself
GroupConfigs ==
    { EmptyMap,
      GroupChain,
      [ g \in { "eng" } |-> << "group:eng", "user:bob" >> ] }

RoleConfigs ==
    { EmptyMap,
      [ r \in { "roles/viewer", "roles/custom.definedRole",
                "roles/secretmanager.customRole" } |->
          CASE r = "roles/viewer" -> << "custom.permission.read" >>
            [] r = "roles/custom.definedRole" ->
                 << "custom.permission.read", "secretmanager.secrets.get" >>
            [] r = "roles/secretmanager.customRole" ->
                 << "custom.permission.read" >> ] }

ProdOnly == "resource.name.startsWith(\"projects/p/secrets/prod\")"

BindingInputs ==
    { Binding("roles/viewer", << "user:alice" >>, <<>>),
      Binding("roles/viewer", << "user:alice", "group:eng" >>, << ProdOnly >>),
      Binding("roles/viewer", << "allUsers" >>, <<>>),
      Binding("roles/secretmanager.secretAccessor", << "group:eng" >>, <<>>),
      Binding("roles/custom.unknownRole", << "user:alice" >>, <<>>) }

BindingLists == UNION { [1..n -> BindingInputs] : n \in 0..MaxBindings }

\* determineVersion of the config loader: 3 when a binding has a condition
determineVersion(policy) ==
    IF \E i \in 1..Len(policy.bindings) : policy.bindings[i].condition # <<>>
    THEN 3 ELSE 1

\* resources asked about while the policy sits at projects/p
RequestResources ==
    { "projects/p/secrets/prod-1", "projects/p/secrets/dev-1" }

NoCall == [op |-> "none"]

Idle == [pc |-> "idle"]

-----------------------------------------------------------------------------
(* The pure functions of the engine applied to drawn inputs.  Each action  *)
(* applies one function to a store drawn in the initial state and records  *)
(* its arguments and result in `last`; one function is applied per         *)
(* behaviour.  getRolePermissions reads the custom-role catalog only       *)
(* (SpecRoles), principalMatches the group registry only (SpecGroups), and *)
(* TestIamPermissions one stored policy at projects/p together with both   *)
(* (SpecPure), compat mode left off as NewStorage leaves it.               *)

Clock == { 1 }       \* time.Now(): no drawn condition reads it

InitRoles ==
    /\ policies = EmptyMap
    /\ groups = EmptyMap
    /\ customRoles \in RoleConfigs
    /\ allowUnknownRoles \in BOOLEAN
    /\ readers = {}
    /\ calls = [c \in Callers |-> Idle]
    /\ nOps = 0
    /\ last = NoCall

CallGetRolePermissions ==
    /\ last = NoCall
    /\ \E role \in RoleInputs, permission \in PermissionInputs :
        /\ last' = [op |-> "getRolePermissions", role |-> role,
                    permission |-> permission,
                    result |-> getRolePermissions(role, permission)]
        /\ UNCHANGED <<storeVars, readers, calls, nOps>>

NextRoles == CallGetRolePermissions

SpecRoles == InitRoles /\ [][NextRoles]_vars

InitGroups ==
    /\ policies = EmptyMap
    /\ groups \in GroupConfigs
    /\ customRoles = EmptyMap
    /\ allowUnknownRoles = FALSE
    /\ readers = {}
    /\ calls = [c \in Callers |-> Idle]
    /\ nOps = 0
    /\ last = NoCall

CallPrincipalMatches ==
    /\ last = NoCall
    /\ \E principal \in MatchPrincipals, member \in MatchMembers :
        /\ last' = [op |-> "principalMatches", principal |-> principal,
                    member |-> member,
                    result |-> principalMatches(principal, member)]
        /\ UNCHANGED <<storeVars, readers, calls, nOps>>

NextGroups == CallPrincipalMatches

SpecGroups == InitGroups /\ [][NextGroups]_vars

InitPure ==
    /\ \E bs \in BindingLists :
          policies = MapSet(EmptyMap, "projects/p",
                            storedPolicy(Policy(determineVersion(Policy(0, bs, <<>>, <<>>)),
                                                bs, <<>>, <<>>)))
    /\ groups \in { EmptyMap, GroupChain }
    /\ customRoles \in RoleConfigs
    /\ allowUnknownRoles = FALSE
    /\ readers = {}
    /\ calls = [c \in Callers |-> Idle]
    /\ nOps = 0
    /\ last = NoCall

CallTestIamPermissions ==
    /\ last = NoCall
    /\ \E resource \in RequestResources, principal \in PrincipalInputs,
       permissions \in PermissionListInputs, now \in Clock :
        /\ last' = [op |-> "TestIamPermissions", resource |-> resource,
                    principal |-> principal, permissions |-> permissions,
                    now |-> now, policy |-> resolvePolicy(resource),
                    allowed |-> TestIamPermissionsAt(resource, principal,
                                                     permissions, now)]
        /\ UNCHANGED <<storeVars, readers, calls, nOps>>

NextPure == CallTestIamPermissions

SpecPure == InitPure /\ [][NextPure]_vars

-----------------------------------------------------------------------------
(* Spec: the store under concurrent clients.                               *)
(* Writers run with s.mu held exclusively, so a write is one step that     *)
(* needs the lock to be free.  TestIamPermissions holds the read lock      *)
(* from its first line to its return and decides one permission per step.  *)

ResourceInputs ==
    { "projects/p", "projects/p/secrets", "projects/p/secrets/s",
      "projects/p/secrets/s/versions/v" }

PolicyInputs ==
    { Policy(1, << Binding("roles/viewer", << "user:alice" >>, <<>>) >>, <<>>, <<>>),
      Policy(0, << Binding("roles/secretmanager.secretAccessor",
                           << "user:bob" >>, <<>>) >>, <<>>, <<>>),
      Policy(3, << Binding("roles/viewer", << "user:alice" >>, << "" >>) >>,
             <<>>, <<>>) }

PolicyMapInputs ==
    { MapSet(EmptyMap, "projects/p",
             Policy(0, << Binding("roles/secretmanager.secretAccessor",
                                  << "group:eng" >>, <<>>) >>, <<>>, <<>>)) }

TestPrincipalInputs == { "user:alice", "user:bob" }

TestPermissionInputs ==
    { << "secretmanager.versions.access", "secretmanager.secrets.get" >> }

Init ==
    /\ policies = EmptyMap
    /\ groups = EmptyMap
    /\ customRoles = EmptyMap
    /\ allowUnknownRoles = FALSE
    /\ readers = {}
    /\ calls = [c \in Callers |-> Idle]
    /\ nOps = 0
    /\ last = NoCall

\* s.mu.Lock() returns: no client holds the read lock (writers are atomic)
Lock_AsRLock == TRUE

Lock == readers = {}

\* a SetIamPolicy that stores the policy before it validates it
SetIamPolicyOf_StoresBeforeValidating(resource, policy) ==
    /\ nOps < MaxOps
    /\ Lock
    /\ nOps' = nOps + 1
    /\ policies' = MapSet(policies, resource, storedPolicy(policy))
    /\ last' = [op |-> "SetIamPolicy", resource |-> resource,
                input |-> policy,
                err |-> emptyConditionAtV3(normalizeVersion(policy)),
                result |-> IF emptyConditionAtV3(normalizeVersion(policy))
                           THEN <<>> ELSE storedPolicy(policy)]
    /\ UNCHANGED <<groups, customRoles, allowUnknownRoles, readers, calls>>

\* Storage.SetIamPolicy applied to (resource, policy)
SetIamPolicyOf(resource, policy) ==
    /\ nOps < MaxOps
    /\ Lock
    /\ nOps' = nOps + 1
    /\ IF emptyConditionAtV3(normalizeVersion(policy))
       THEN /\ policies' = policies
            /\ last' = [op |-> "SetIamPolicy", resource |-> resource,
                        input |-> policy, err |-> TRUE, result |-> <<>>]
       ELSE /\ policies' = MapSet(policies, resource, storedPolicy(policy))
            /\ last' = [op |-> "SetIamPolicy", resource |-> resource,
                        input |-> policy, err |-> FALSE,
                        result |-> storedPolicy(policy)]
    /\ UNCHANGED <<groups, customRoles, allowUnknownRoles, readers, calls>>

SetIamPolicy ==
    \E resource \in ResourceInputs, policy \in PolicyInputs :
        SetIamPolicyOf(resource, policy)

\* Storage.LoadPolicies applied to a map resource -> policy
LoadPoliciesOf(loaded) ==
    /\ nOps < MaxOps
    /\ Lock
    /\ nOps' = nOps + 1
    /\ policies' = [r \in DOMAIN policies \cup DOMAIN loaded |->
                      IF r \in DOMAIN loaded
                      THEN storedPolicy(loaded[r]) ELSE policies[r]]
    /\ last' = [op |-> "LoadPolicies", input |-> loaded]
    /\ UNCHANGED <<groups, customRoles, allowUnknownRoles, readers, calls>>

LoadPolicies == \E loaded \in PolicyMapInputs : LoadPoliciesOf(loaded)

LoadGroups ==
    \E loaded \in GroupConfigs :
        /\ nOps < MaxOps
        /\ Lock
        /\ nOps' = nOps + 1
        /\ groups' = loaded
        /\ last' = [op |-> "LoadGroups", input |-> loaded]
        /\ UNCHANGED <<policies, customRoles, allowUnknownRoles, readers, calls>>

LoadCustomRoles ==
    \E loaded \in RoleConfigs :
        /\ nOps < MaxOps
        /\ Lock
        /\ nOps' = nOps + 1
        /\ customRoles' = loaded
        /\ last' = [op |-> "LoadCustomRoles", input |-> loaded]
        /\ UNCHANGED <<policies, groups, allowUnknownRoles, readers, calls>>

\* Clear leaving the policy map as it is
Clear_KeepsPolicies ==
    /\ nOps < MaxOps
    /\ Lock
    /\ nOps' = nOps + 1
    /\ groups' = EmptyMap
    /\ customRoles' = EmptyMap
    /\ last' = [op |-> "Clear"]
    /\ UNCHANGED <<policies, allowUnknownRoles, readers, calls>>

Clear ==
    /\ nOps < MaxOps
    /\ Lock
    /\ nOps' = nOps + 1
    /\ policies' = EmptyMap
    /\ groups' = EmptyMap
    /\ customRoles' = EmptyMap
    /\ last' = [op |-> "Clear"]
    /\ UNCHANGED <<allowUnknownRoles, readers, calls>>

\* Storage.SetAllowUnknownRoles, called by Server.SetAllowUnknownRoles
SetAllowUnknownRoles ==
    \E allow \in BOOLEAN :
        /\ nOps < MaxOps
        /\ Lock
        /\ nOps' = nOps + 1
        /\ allowUnknownRoles' = allow
        /\ last' = [op |-> "SetAllowUnknownRoles", input |-> allow]
        /\ UNCHANGED <<policies, groups, customRoles, readers, calls>>

\* the read lock is always free to take: no writer holds s.mu between steps
\* a GetIamPolicy that remembers the empty policy it makes up
GetIamPolicyOf_StoresDefault(resource) ==
    /\ nOps < MaxOps
    /\ nOps' = nOps + 1
    /\ policies' = IF resource \in DOMAIN policies THEN policies
                   ELSE MapSet(policies, resource, Policy(1, <<>>, <<>>, <<>>))
    /\ last' = [op |-> "GetIamPolicy", resource |-> resource, err |-> FALSE,
                result |-> policies'[resource]]
    /\ UNCHANGED <<groups, customRoles, allowUnknownRoles, readers, calls>>

\* Storage.GetIamPolicy applied to resource; the error it returns is nil
GetIamPolicyOf(resource) ==
    /\ nOps < MaxOps
    /\ nOps' = nOps + 1
    /\ last' = [op |-> "GetIamPolicy", resource |-> resource, err |-> FALSE,
                result |-> IF resource \in DOMAIN policies
                           THEN policies[resource]
                           ELSE Policy(1, <<>>, <<>>, <<>>)]
    /\ UNCHANGED <<storeVars, readers, calls>>

GetIamPolicy == \E resource \in ResourceInputs : GetIamPolicyOf(resource)

\* TestIamPermissions lines 162-177: RLock, resolvePolicy, the context
TestIamPermissionsBegin(c) ==
    \E resource \in ResourceInputs, principal \in TestPrincipalInputs,
       permissions \in TestPermissionInputs, now \in Clock :
        /\ calls[c].pc = "idle"
        /\ nOps < MaxOps
        /\ nOps' = nOps + 1
        /\ readers' = readers \cup {c}
        /\ calls' = [calls EXCEPT ![c] =
                        [pc |-> IF resolvePolicy(resource) = <<>>
                                THEN "return" ELSE "loop",
                         resource |-> resource, principal |-> principal,
                         permissions |-> permissions, now |-> now,
                         policy |-> resolvePolicy(resource),
                         i |-> 1, allowed |-> <<>>]]
        /\ UNCHANGED <<storeVars, last>>

\* TestIamPermissions lines 180-192: one iteration of the permission loop
TestIamPermissionsStep(c) ==
    /\ calls[c].pc = "loop"
    /\ calls[c].i <= Len(calls[c].permissions)
    /\ LET call == calls[c]
           perm == call.permissions[call.i]
           d    == hasPermission(call.policy, call.principal, perm,
                                 EvalContext(call.resource,
                                             extractResourceType(call.resource),
                                             call.now))
       IN  calls' = [calls EXCEPT ![c].i = call.i + 1,
                                  ![c].allowed = IF d.decision
                                                 THEN Append(call.allowed, perm)
                                                 ELSE call.allowed]
    /\ UNCHANGED <<storeVars, readers, nOps, last>>

\* TestIamPermissions lines 170 and 194: return, the deferred RUnlock
TestIamPermissionsReturn(c) ==
    /\ \/ calls[c].pc = "return"
       \/ calls[c].pc = "loop" /\ calls[c].i > Len(calls[c].permissions)
    /\ readers' = readers \ {c}
    /\ last' = [op |-> "TestIamPermissions", resource |-> calls[c].resource,
                principal |-> calls[c].principal,
                permissions |-> calls[c].permissions, now |-> calls[c].now,
                policy |-> calls[c].policy, allowed |-> calls[c].allowed]
    /\ calls' = [calls EXCEPT ![c] = Idle]
    /\ UNCHANGED <<storeVars, nOps>>

Next ==
    \/ SetIamPolicy
    \/ LoadPolicies
    \/ LoadGroups
    \/ LoadCustomRoles
    \/ Clear
    \/ SetAllowUnknownRoles
    \/ GetIamPolicy
    \/ \E c \in Callers : TestIamPermissionsBegin(c)
    \/ \E c \in Callers : TestIamPermissionsStep(c)
    \/ \E c \in Callers : TestIamPermissionsReturn(c)

Spec == Init /\ [][Next]_vars

-----------------------------------------------------------------------------
(* SpecStore: the policy store alone, written and read by one client at a  *)
(* time.  Writes submit policies of every version, with and without         *)
(* conditions and audit configs, and policies read back from the store      *)
(* (which carry the etag they were stored with).                            *)

StoreResources == { "projects/p", "projects/p/secrets/s" }

ViewerAlice == Binding("roles/viewer", << "user:alice" >>, <<>>)

ViewerAliceProd == Binding("roles/viewer", << "user:alice" >>, << ProdOnly >>)

AccessorBob ==
    Binding("roles/secretmanager.secretAccessor", << "user:bob" >>, <<>>)

AuditReads ==
    << [service |-> "allServices", auditLogConfigs |-> << "DATA_READ" >>] >>

StorePolicies ==
    { Policy(0, << ViewerAlice >>, <<>>, <<>>),
      Policy(1, << ViewerAlice >>, <<>>, <<>>),
      Policy(1, << ViewerAliceProd >>, <<>>, <<>>),
      Policy(2, << AccessorBob >>, <<>>, <<>>),
      Policy(3, << ViewerAliceProd, AccessorBob >>, AuditReads, <<>>),
      Policy(3, << Binding("roles/viewer", << "user:alice" >>, << "" >>) >>,
             <<>>, <<>>) }

\* what a configuration file yields: determineVersion sets the version
StorePolicyMaps ==
    { MapSet(EmptyMap, "projects/p", Policy(1, << AccessorBob >>, <<>>, <<>>)),
      MapSet(MapSet(EmptyMap, "projects/p",
                    Policy(3, << Binding("roles/viewer", << "user:alice" >>,
                                         << "" >>) >>, <<>>, <<>>)),
             "projects/p/secrets/s",
             Policy(3, << ViewerAliceProd >>, <<>>, <<>>)) }

\* a client submits a fresh policy or one GetIamPolicy returned to it
StoreSetIamPolicy ==
    \E resource \in StoreResources,
       policy \in StorePolicies \cup { policies[r] : r \in DOMAIN policies } :
        SetIamPolicyOf(resource, policy)

StoreLoadPolicies == \E loaded \in StorePolicyMaps : LoadPoliciesOf(loaded)

StoreGetIamPolicy == \E resource \in StoreResources : GetIamPolicyOf(resource)

NextStore ==
    \/ StoreSetIamPolicy
    \/ StoreLoadPolicies
    \/ Clear
    \/ StoreGetIamPolicy

SpecStore == Init /\ [][NextStore]_vars

-----------------------------------------------------------------------------
(* The transports: the gRPC server and the REST handlers in front of the   *)
(* store.  A handler is an operator from the request and the store to a    *)
(* reply; the reply carries the store the handler leaves behind.           *)

\* the only error Storage.SetIamPolicy returns
EmptyConditionError == "condition expression cannot be empty when version is 3"

\* Storage.SetIamPolicy as a function: err is "" for nil
storageSetIamPolicy(resource, policy) ==
    IF emptyConditionAtV3(normalizeVersion(policy))
    THEN [err |-> EmptyConditionError, policy |-> <<>>, policies |-> policies]
    ELSE [err |-> "", policy |-> storedPolicy(policy),
          policies |-> MapSet(policies, resource, storedPolicy(policy))]

\* Storage.GetIamPolicy as a function
storageGetIamPolicy(resource) ==
    IF resource \in DOMAIN policies
    THEN policies[resource] ELSE Policy(1, <<>>, <<>>, <<>>)

\* a gRPC reply: status.Error(code, message), or the message returned
Reply(code, message, body, store) ==
    [code |-> code, message |-> message, body |-> body, policies |-> store]

\* incoming metadata: <<>> when the context has none, else the values of
\* the key x-emulator-principal
extractPrincipal(md) ==
    IF md = <<>> THEN ""
    ELSE IF Len(md.principals) = 0 THEN ""
    ELSE md.principals[1]

ServerSetIamPolicy(req) ==
    IF req.resource = ""
    THEN Reply("InvalidArgument", "resource is required", <<>>, policies)
    ELSE IF req.policy = <<>>
    THEN Reply("InvalidArgument", "policy is required", <<>>, policies)
    ELSE LET r == storageSetIamPolicy(req.resource, req.policy)
         IN  IF r.err # ""
             THEN IF Contains(r.err, "not found")
                  THEN Reply("NotFound", r.err, <<>>, r.policies)
                  ELSE Reply("Internal", r.err, <<>>, r.policies)
             ELSE Reply("OK", "", r.policy, r.policies)

ServerGetIamPolicy(req) ==
    IF req.resource = ""
    THEN Reply("InvalidArgument", "resource is required", <<>>, policies)
    ELSE Reply("OK", "", storageGetIamPolicy(req.resource), policies)

ServerTestIamPermissions(req, md, now) ==
    IF req.resource = ""
    THEN Reply("InvalidArgument", "resource is required", <<>>, policies)
    ELSE IF Len(req.permissions) = 0
    THEN Reply("InvalidArgument", "permissions is required", <<>>, policies)
    ELSE Reply("OK", "",
               TestIamPermissionsAt(req.resource, extractPrincipal(md),
                                    req.permissions, now),
               policies)

grpcCodeToHTTP(code) ==
    CASE code = "OK"                 -> 200
      [] code = "Canceled"           -> 499
      [] code = "InvalidArgument"    -> 400
      [] code = "NotFound"           -> 404
      [] code = "AlreadyExists"      -> 409
      [] code = "PermissionDenied"   -> 403
      [] code = "Unauthenticated"    -> 401
      [] code = "ResourceExhausted"  -> 429
      [] code = "FailedPrecondition" -> 400
      [] code = "Aborted"            -> 409
      [] code = "OutOfRange"         -> 400
      [] code = "Unimplemented"      -> 501
      [] code = "Internal"           -> 500
      [] code = "Unavailable"        -> 503
      [] code = "DataLoss"           -> 500
      [] OTHER                       -> 500

\* an HTTP reply: the status line, the gRPC code it was made from, the body
writeJSON(data, store) ==
    [http |-> 200, code |-> "OK", message |-> "", body |-> data,
     policies |-> store]

writeError(code, message) ==
    [http |-> grpcCodeToHTTP(code), code |-> code, message |-> message,
     body |-> <<>>, policies |-> policies]

\* a request body: one that cannot be read, one that is not JSON, or a JSON
\* object with the fields policy and permissions (<<>> when absent)
Unreadable == [kind |-> "unreadable"]

InvalidJSON == [kind |-> "invalid"]

JSONBody(policy, permissions) ==
    [kind |-> "json", policy |-> policy, permissions |-> permissions]

handleSetIamPolicy(method, body, resource) ==
    IF method # "POST"
    THEN writeError("InvalidArgument", "method must be POST")
    ELSE IF body = Unreadable
    THEN writeError("InvalidArgument", "failed to read request body")
    ELSE IF body = InvalidJSON
    THEN writeError("InvalidArgument", "invalid JSON")
    ELSE IF body.policy = <<>>
    THEN writeError("InvalidArgument", "policy is required")
    ELSE LET r == storageSetIamPolicy(resource, body.policy)
         IN  IF r.err # ""
             THEN writeError("Internal", r.err)
             ELSE writeJSON(r.policy, r.policies)

handleGetIamPolicy(method, resource) ==
    IF method # "POST" /\ method # "GET"
    THEN writeError("InvalidArgument", "method must be POST or GET")
    ELSE writeJSON(storageGetIamPolicy(resource), policies)

handleTestIamPermissions(method, header, body, resource, now) ==
    IF method # "POST"
    THEN writeError("InvalidArgument", "method must be POST")
    ELSE IF body = Unreadable
    THEN writeError("InvalidArgument", "failed to read request body")
    ELSE IF body = InvalidJSON
    THEN writeError("InvalidArgument", "invalid JSON")
    ELSE LET principal == IF header = "" THEN "user:anonymous" ELSE header
         IN  writeJSON(TestIamPermissionsAt(resource, principal,
                                            body.permissions, now),
                       policies)

\* header is r.Header.Get("X-Emulator-Principal"): "" when the header is
\* missing or empty
handleRequest(method, path, header, body, now) ==
    LET parts == Split(TrimPrefix(path, "/v1/"), ":")
    IN  IF Len(parts) < 2
        THEN writeError("InvalidArgument", "invalid path format")
        ELSE CASE parts[2] = "setIamPolicy" ->
                    handleSetIamPolicy(method, body, parts[1])
               [] parts[2] = "getIamPolicy" ->
                    handleGetIamPolicy(method, parts[1])
               [] parts[2] = "testIamPermissions" ->
                    handleTestIamPermissions(method, header, body, parts[1], now)
               [] OTHER ->
                    writeError("Unimplemented", "unknown method: " \o parts[2])

-----------------------------------------------------------------------------
(* SpecTransport: one request, over gRPC or REST, against a drawn store.   *)

TransportStores ==
    { EmptyMap,
      MapSet(EmptyMap, "projects/p",
             storedPolicy(Policy(1, << ViewerAlice >>, <<>>, <<>>))),
      MapSet(EmptyMap, "projects/p",
             storedPolicy(Policy(1, << Binding("roles/viewer", << "allUsers" >>,
                                               <<>>) >>, <<>>, <<>>))) }

TransportResources == { "", "projects/p", "projects/p/secrets/s" }

\* <<>> is a request without policy
TransportPolicies ==
    { <<>>,
      Policy(0, << AccessorBob >>, <<>>, <<>>),
      Policy(3, << Binding("roles/viewer", << "user:alice" >>, << "" >>) >>,
             <<>>, <<>>) }

TransportPermissions ==
    { <<>>,
      << "secretmanager.secrets.get" >>,
      << "secretmanager.versions.access", "secretmanager.secrets.get" >> }

\* no metadata at all, metadata without the key, an empty value, a value
MetadataInputs ==
    { <<>>,
      [principals |-> <<>>],
      [principals |-> << "" >>],
      [principals |-> << "user:alice" >>],
      [principals |-> << "user:bob" >>] }

HeaderInputs == { "", "user:alice", "user:bob" }

MethodInputs == { "POST", "GET" }

PathInputs ==
    { "/v1/projects/p:setIamPolicy",
      "/v1/:setIamPolicy",
      "/v1/projects/p:getIamPolicy",
      "/v1/projects/p:testIamPermissions",
      "/v1/projects/p/secrets/s:testIamPermissions",
      "/v1/:testIamPermissions",
      "/v1/projects/p:undelete",
      "/v1/projects/p" }

BodyInputs ==
    { Unreadable, InvalidJSON }
      \cup { JSONBody(policy, <<>>) : policy \in TransportPolicies }
      \cup { JSONBody(<<>>, permissions) : permissions \in TransportPermissions }

InitTransport ==
    /\ policies \in TransportStores
    /\ groups = EmptyMap
    /\ customRoles = EmptyMap
    /\ allowUnknownRoles = FALSE
    /\ readers = {}
    /\ calls = [c \in Callers |-> Idle]
    /\ nOps = 0
    /\ last = NoCall

GrpcSetIamPolicy ==
    /\ last = NoCall
    /\ \E resource \in TransportResources, policy \in TransportPolicies :
        LET req   == [resource |-> resource, policy |-> policy]
            reply == ServerSetIamPolicy(req)
        IN  /\ policies' = reply.policies
            /\ last' = [op |-> "SetIamPolicy", transport |-> "grpc",
                        resource |-> resource, policy |-> policy,
                        reply |-> reply]
    /\ UNCHANGED <<groups, customRoles, allowUnknownRoles, readers, calls, nOps>>

GrpcGetIamPolicy ==
    /\ last = NoCall
    /\ \E resource \in TransportResources :
        LET reply == ServerGetIamPolicy([resource |-> resource])
        IN  /\ policies' = reply.policies
            /\ last' = [op |-> "GetIamPolicy", transport |-> "grpc",
                        resource |-> resource, reply |-> reply]
    /\ UNCHANGED <<groups, customRoles, allowUnknownRoles, readers, calls, nOps>>

GrpcTestIamPermissions ==
    /\ last = NoCall
    /\ \E resource \in TransportResources, md \in MetadataInputs,
          permissions \in TransportPermissions, now \in Clock :
        LET req   == [resource |-> resource, permissions |-> permissions]
            reply == ServerTestIamPermissions(req, md, now)
        IN  /\ policies' = reply.policies
            /\ last' = [op |-> "TestIamPermissions", transport |-> "grpc",
                        resource |-> resource, permissions |-> permissions,
                        carrier |-> extractPrincipal(md), now |-> now,
                        reply |-> reply]
    /\ UNCHANGED <<groups, customRoles, allowUnknownRoles, readers, calls, nOps>>

\* the method and resource the REST path names
PathMethod(path) ==
    LET parts == Split(TrimPrefix(path, "/v1/"), ":")
    IN  IF Len(parts) < 2 THEN "" ELSE parts[2]

PathResource(path) == Split(TrimPrefix(path, "/v1/"), ":")[1]

RestRequest ==
    /\ last = NoCall
    /\ \E method \in MethodInputs, path \in PathInputs,
          header \in HeaderInputs, body \in BodyInputs, now \in Clock :
        LET reply == handleRequest(method, path, header, body, now)
        IN  /\ policies' = reply.policies
            /\ last' = [op |-> CASE PathMethod(path) = "setIamPolicy" -> "SetIamPolicy"
                                 [] PathMethod(path) = "getIamPolicy" -> "GetIamPolicy"
                                 [] PathMethod(path) = "testIamPermissions" -> "TestIamPermissions"
                                 [] OTHER -> "unknown",
                        transport |-> "rest", method |-> method,
                        resource |-> PathResource(path),
                        policy |-> IF body.kind = "json" THEN body.policy ELSE <<>>,
                        permissions |-> IF body.kind = "json"
                                        THEN body.permissions ELSE <<>>,
                        decoded |-> body.kind = "json",
                        carrier |-> header, now |-> now, reply |-> reply]
    /\ UNCHANGED <<groups, customRoles, allowUnknownRoles, readers, calls, nOps>>

NextTransport ==
    \/ GrpcSetIamPolicy
    \/ GrpcGetIamPolicy
    \/ GrpcTestIamPermissions
    \/ RestRequest

SpecTransport == InitTransport /\ [][NextTransport]_vars

-----------------------------------------------------------------------------
(* SpecCel: evaluateCondition applied to drawn expressions, and the         *)
(* decision for user:alice under a policy whose only binding carries the    *)
(* expression.                                                              *)

Before2030 == "request.time < timestamp(\"2030-01-01T00:00:00Z\")"

After2030 == "request.time > timestamp(\"2030-01-01T00:00:00Z\")"

ExpressionInputs ==
    { ProdOnly,
      "resource.type == \"SECRET\"",
      "  resource.type == \"SECRET\" ",
      Before2030,
      After2030,
      " ",
      "true",
      "resource.service == \"secretmanager\"",
      "!resource.name.startsWith(\"projects/p/secrets/prod\")",
      "resource.type != \"SECRET\"",
      "resource.type == \"SECRET\" && resource.name.startsWith(\"projects/p/secrets/dev\")",
      "resource.name.startsWith(\"projects/q\") || resource.type == \"SECRET\"",
      "!(" \o Before2030 \o ")",
      "request.time >= timestamp(\"2030-01-01T00:00:00Z\")" }

CelResources ==
    { "projects/p/secrets/prod-1", "projects/p/secrets/dev-1",
      "projects/p/keyRings/k", "projects/p" }

CelTimes == { 1, 3 }     \* before and after 2030-01-01T00:00:00Z

CallEvaluateCondition ==
    /\ last = NoCall
    /\ \E expression \in ExpressionInputs, resource \in CelResources,
          now \in CelTimes :
        LET ctx == EvalContext(resource, extractResourceType(resource), now)
            policy == Policy(3, << Binding("roles/viewer", << "user:alice" >>,
                                           << expression >>) >>, <<>>, <<>>)
        IN  last' = [op |-> "evaluateCondition", expression |-> expression,
                     resource |-> resource, now |-> now,
                     result |-> evaluateCondition(<< expression >>, ctx),
                     decision |-> hasPermission(policy, "user:alice",
                                                "secretmanager.secrets.get",
                                                ctx).decision]
    /\ UNCHANGED <<storeVars, readers, calls, nOps>>

NextCel == CallEvaluateCondition

SpecCel == Init /\ [][NextCel]_vars

-----------------------------------------------------------------------------
(* Vocabulary of the properties.                                           *)

\* the evaluation context of the recorded TestIamPermissions call
LastCtx ==
    EvalContext(last.resource, extractResourceType(last.resource), last.now)

LastTest == last.op = "TestIamPermissions" /\ last.policy # <<>>

\* the orderings of a list
Orderings(seq) ==
    { [i \in 1..Len(seq) |-> seq[f[i]]] :
        f \in { g \in [1..Len(seq) -> 1..Len(seq)] :
                  \A a, b \in 1..Len(seq) : g[a] = g[b] => a = b } }

\* binding b alone would grant the permission to the principal
WouldGrant(b, principal, permission, ctx) ==
    hasPermission(Policy(1, <<b>>, <<>>, <<>>), principal, permission, ctx).decision

\* the role of b grants the permission and a member of b matches the principal
GrantsAndMatches(b, principal, permission) ==
    /\ roleGrants(b, permission)
    /\ \E m \in 1..Len(b.members) : principalMatches(principal, b.members[m])

\* ... and the condition of b evaluates to false
FailingMatch(b, principal, permission, ctx) ==
    /\ principal # ""
    /\ GrantsAndMatches(b, principal, permission)
    /\ b.condition # <<>>
    /\ ~evaluateCondition(b.condition, ctx).result

\* a loaded custom role or a built-in role
KnownRole(role) == role \in (DOMAIN customRoles \cup DOMAIN builtInRoles)

\* P is among the direct members of group G
DirectMember(P, G) == G \in DOMAIN groups /\ P \in Range(groups[G])

\* P is a direct member of G or of a group that is a direct member of G
MemberDepth2(P, G) ==
    \/ DirectMember(P, G)
    \/ \E H \in DOMAIN groups :
          DirectMember("group:" \o H, G) /\ DirectMember(P, H)

\* the evaluation context of the call client c has in progress
CallCtx(c) ==
    EvalContext(calls[c].resource, extractResourceType(calls[c].resource),
                calls[c].now)

InProgress(c) == calls[c].pc # "idle"

\* the name has an even number of segments: projects/<id> and pairs
EvenSegments(resource) == Len(Split(resource, "/")) % 2 = 0

\* the stored keys that are the name itself or a prefix of it followed by a
\* whole number of collection/id pairs
StoredAncestors(resource) ==
    { k \in DOMAIN policies :
        \/ k = resource
        \/ /\ HasPrefix(resource, k \o "/")
           /\ Cardinality(Occurrences(Slice(resource, Len(k), Len(resource)),
                                      "/")) % 2 = 0 }

Nearest(resource) ==
    CHOOSE k \in StoredAncestors(resource) :
        \A j \in StoredAncestors(resource) : Len(j) <= Len(k)

-----------------------------------------------------------------------------
(* C1 - decisions under concurrent writes.                                 *)

\* the decisions a call has made so far are those of the store as it is now
C1_DecisionsOfCurrentStore ==
    \A c \in Callers :
        InProgress(c) =>
            /\ calls[c].policy = resolvePolicy(calls[c].resource)
            /\ calls[c].policy # <<>> =>
                  calls[c].allowed =
                      allowedLoop(resolvePolicy(calls[c].resource),
                                  calls[c].principal,
                                  SubSeq(calls[c].permissions, 1, calls[c].i - 1),
                                  CallCtx(c))

\* no step changes the store while a call holds the read lock across it
C1_StoreStableWhileReading ==
    (readers \cap readers' # {}) => UNCHANGED <<policies, groups, customRoles>>

\* C1: every TestIamPermissions call computes all its per-permission
\* decisions against one state of the store: the store does not change
\* between the call's first and last decision, so each call sees the policy
\* of its resource either as it was before a SetIamPolicy or as it is after,
\* never a mixture.
C1_NoPartialWrite ==
    []C1_DecisionsOfCurrentStore /\ [][C1_StoreStableWhileReading]_vars

\* two calls are deciding at once on the resource SetIamPolicy just wrote,
\* one of them between its first and its second decision
C1_Witness ==
    /\ readers = Callers
    /\ last.op = "SetIamPolicy"
    /\ last.err = FALSE
    /\ \A c \in Callers : calls[c].resource = last.resource
    /\ \E c \in Callers :
          /\ calls[c].pc = "loop"
          /\ calls[c].i = 2
          /\ calls[c].policy = last.result
          /\ calls[c].allowed # <<>>

-----------------------------------------------------------------------------
(* C4, C5 - hierarchical resolution.                                       *)

\* C4: for a name made of projects/<id> and collection/id pairs, the
\* decision uses the policy of the nearest stored ancestor (the name itself
\* first); when neither the name nor an ancestor is stored there is no
\* policy and TestIamPermissions returns the empty list.
C4_NearestStoredAncestor ==
    /\ \A c \in Callers :
          (InProgress(c) /\ EvenSegments(calls[c].resource)) =>
              IF StoredAncestors(calls[c].resource) = {}
              THEN /\ calls[c].policy = <<>>
                   /\ calls[c].pc = "return"
                   /\ calls[c].allowed = <<>>
              ELSE calls[c].policy = policies[Nearest(calls[c].resource)]
    /\ (last.op = "TestIamPermissions" /\ last.policy = <<>>)
          => last.allowed = <<>>

\* projects/p was written, then projects/p/secrets/s: the call at
\* projects/p/secrets/s/versions/v now uses the closer policy
C4_Witness ==
    /\ "projects/p" \in DOMAIN policies
    /\ last.op = "SetIamPolicy"
    /\ last.err = FALSE
    /\ last.resource = "projects/p/secrets/s"
    /\ policies["projects/p"] # policies["projects/p/secrets/s"]
    /\ \E c \in Callers :
          /\ InProgress(c)
          /\ calls[c].resource = "projects/p/secrets/s/versions/v"
          /\ calls[c].resource \notin DOMAIN policies
          /\ calls[c].policy = policies["projects/p/secrets/s"]

\* C5: when a policy is stored at exactly the requested resource, the
\* decision uses that policy alone: every permission allowed is one a
\* binding of the resource's own policy would grant, whatever the policies
\* of the ancestors grant.
C5_OwnPolicyShadowsAncestors ==
    \A c \in Callers :
        (InProgress(c) /\ calls[c].resource \in DOMAIN policies) =>
            /\ calls[c].policy = policies[calls[c].resource]
            /\ \A perm \in Range(calls[c].allowed) :
                  \E i \in 1..Len(policies[calls[c].resource].bindings) :
                      WouldGrant(policies[calls[c].resource].bindings[i],
                                 calls[c].principal, perm, CallCtx(c))

\* alice is a viewer at projects/p, the policy at projects/p/secrets/s names
\* bob only: secretmanager.secrets.get is denied to alice at the secret
C5_Witness ==
    /\ "projects/p" \in DOMAIN policies
    /\ "projects/p/secrets/s" \in DOMAIN policies
    /\ \E c \in Callers :
          /\ calls[c].pc = "loop"
          /\ calls[c].i > Len(calls[c].permissions)
          /\ calls[c].resource = "projects/p/secrets/s"
          /\ calls[c].principal = "user:alice"
          /\ "secretmanager.secrets.get" \in Range(calls[c].permissions)
          /\ "secretmanager.secrets.get" \notin Range(calls[c].allowed)
          /\ \E i \in 1..Len(policies["projects/p"].bindings) :
                WouldGrant(policies["projects/p"].bindings[i], "user:alice",
                           "secretmanager.secrets.get", CallCtx(c))

-----------------------------------------------------------------------------
(* C2 - binding order.                                                     *)

\* C2 (as claimed): for every policy, principal, resource, time and
\* permission the decision of TestIamPermissions is the same for every
\* permutation of the bindings, and it is allow exactly when at least one
\* binding would grant the permission to the principal.
C2_OrderNeverMatters ==
    LastTest =>
        \A perm \in Range(last.permissions) :
            /\ \A q \in Orderings(last.policy.bindings) :
                  hasPermission([last.policy EXCEPT !.bindings = q],
                                last.principal, perm, LastCtx).decision
                    = (perm \in Range(last.allowed))
            /\ (perm \in Range(last.allowed))
                 <=> \E i \in 1..Len(last.policy.bindings) :
                        WouldGrant(last.policy.bindings[i], last.principal,
                                   perm, LastCtx)

\* C2 (amended): when no binding that grants the permission and matches the
\* non-empty principal carries a condition that evaluates to false, the
\* decision is the same for every permutation of the bindings and is allow
\* exactly when at least one binding would grant.
C2_OrderIrrelevantWithoutFailedCondition ==
    LastTest =>
        \A perm \in Range(last.permissions) :
            (\A i \in 1..Len(last.policy.bindings) :
                ~FailingMatch(last.policy.bindings[i], last.principal, perm, LastCtx))
            =>
            /\ \A q \in Orderings(last.policy.bindings) :
                  hasPermission([last.policy EXCEPT !.bindings = q],
                                last.principal, perm, LastCtx).decision
                    = (perm \in Range(last.allowed))
            /\ (perm \in Range(last.allowed))
                 <=> \E i \in 1..Len(last.policy.bindings) :
                        WouldGrant(last.policy.bindings[i], last.principal,
                                   perm, LastCtx)

\* a two-binding policy whose second binding alone grants the permission
C2_Witness ==
    /\ LastTest
    /\ last.principal = "user:alice"
    /\ last.permissions = <<"secretmanager.secrets.get">>
    /\ last.allowed = <<"secretmanager.secrets.get">>
    /\ Len(last.policy.bindings) = 2
    /\ ~WouldGrant(last.policy.bindings[1], last.principal,
                   "secretmanager.secrets.get", LastCtx)
    /\ WouldGrant(last.policy.bindings[2], last.principal,
                  "secretmanager.secrets.get", LastCtx)
    /\ \A i \in 1..2 : ~FailingMatch(last.policy.bindings[i], last.principal,
                                     "secretmanager.secrets.get", LastCtx)

-----------------------------------------------------------------------------
(* C3 - a failed condition denies.                                         *)

\* C3 (as claimed): if some binding of the policy grants the permission by
\* its role, has a member matching the non-empty principal and a condition
\* that evaluates to false, the permission is denied.
C3_AnyFailedConditionDenies ==
    LastTest =>
        \A perm \in Range(last.permissions) :
            (\E i \in 1..Len(last.policy.bindings) :
                FailingMatch(last.policy.bindings[i], last.principal, perm, LastCtx))
            => perm \notin Range(last.allowed)

\* C3 (amended): if the first binding, in stored order, that grants the
\* permission and matches the non-empty principal has a condition that
\* evaluates to false, the permission is denied whatever the later bindings.
C3_FirstFailedConditionDenies ==
    LastTest =>
        \A perm \in Range(last.permissions) :
            (\E i \in 1..Len(last.policy.bindings) :
                /\ FailingMatch(last.policy.bindings[i], last.principal, perm, LastCtx)
                /\ \A j \in 1..(i - 1) :
                      ~GrantsAndMatches(last.policy.bindings[j], last.principal, perm))
            => perm \notin Range(last.allowed)

\* the conditioned binding fails first and an allUsers binding follows
C3_Witness ==
    /\ LastTest
    /\ last.principal = "user:alice"
    /\ last.permissions = <<"secretmanager.secrets.get">>
    /\ last.allowed = <<>>
    /\ Len(last.policy.bindings) = 2
    /\ FailingMatch(last.policy.bindings[1], last.principal,
                    "secretmanager.secrets.get", LastCtx)
    /\ last.policy.bindings[2].condition = <<>>
    /\ last.policy.bindings[2].members = <<"allUsers">>
    /\ WouldGrant(last.policy.bindings[2], last.principal,
                  "secretmanager.secrets.get", LastCtx)

-----------------------------------------------------------------------------
(* C6, C7 - strict mode and the wildcard fallback.                         *)

\* C6: while compat mode is off, every permission TestIamPermissions allows
\* is granted by a binding whose role is a loaded custom role or a built-in
\* role; a binding with any other role grants nothing.
C6_StrictModeDeniesUnknownRole ==
    (allowUnknownRoles = FALSE /\ LastTest) =>
        \A perm \in Range(last.allowed) :
            \E i \in 1..Len(last.policy.bindings) :
                /\ KnownRole(last.policy.bindings[i].role)
                /\ roleGrants(last.policy.bindings[i], perm)

\* the first dot-separated token of a text
FirstToken(text) == Split(text, ".")[1]

\* C7: in compat mode a role that is neither custom nor built-in grants the
\* queried permission, and only it, exactly when the role id begins with
\* roles/ and the first dot-separated token after roles/ equals the first
\* dot-separated token of the permission.
C7_WildcardComparesFirstToken ==
    (allowUnknownRoles = TRUE /\ last.op = "getRolePermissions"
       /\ ~KnownRole(last.role)) =>
        IF /\ HasPrefix(last.role, "roles/")
           /\ FirstToken(TrimPrefix(last.role, "roles/")) = FirstToken(last.permission)
        THEN last.result = RoleResult(<<last.permission>>, TRUE)
        ELSE ~(last.result.ok /\ last.permission \in Range(last.result.perms))

-----------------------------------------------------------------------------
(* C8 - custom roles first.                                                *)

\* C8: a role id present in the loaded custom roles resolves to exactly the
\* custom permission list, also when the id is a built-in role or the
\* wildcard fallback would match.
C8_CustomRoleIsAuthoritative ==
    (last.op = "getRolePermissions" /\ last.role \in DOMAIN customRoles)
        => last.result = RoleResult(customRoles[last.role], TRUE)

\* custom roles/viewer lists custom.permission.read only: the built-in
\* secretmanager.secrets.get is no longer among its permissions
C8_Witness ==
    /\ last.op = "getRolePermissions"
    /\ last.role = "roles/viewer"
    /\ last.role \in DOMAIN customRoles
    /\ last.role \in DOMAIN builtInRoles
    /\ last.permission = "secretmanager.secrets.get"
    /\ last.result.perms = <<"custom.permission.read">>

-----------------------------------------------------------------------------
(* C9 - group nesting.                                                     *)

\* C9 (as claimed): member group:G matches P exactly when P is a direct
\* member of G or a direct member of a group that is a direct member of G.
C9_GroupMatchIffMemberDepth2 ==
    (last.op = "principalMatches" /\ HasPrefix(last.member, "group:")) =>
        (last.result <=> MemberDepth2(last.principal,
                                      TrimPrefix(last.member, "group:")))

\* C9 (amended): member group:G matches P exactly when P is the text
\* group:G itself, or a direct member of G, or a direct member of a group
\* that is a direct member of G; deeper nesting is ignored.
C9_GroupMatchIffEqualOrMemberDepth2 ==
    (last.op = "principalMatches" /\ HasPrefix(last.member, "group:")) =>
        (last.result <=>
            \/ last.principal = last.member
            \/ MemberDepth2(last.principal, TrimPrefix(last.member, "group:")))

\* eng -> [group:ops], ops -> [group:sec], sec -> [carol]: carol is not
\* matched by group:eng
C9_Witness ==
    /\ last.op = "principalMatches"
    /\ last.member = "group:eng"
    /\ last.principal = "user:carol"
    /\ DirectMember("group:ops", "eng")
    /\ DirectMember("group:sec", "ops")
    /\ DirectMember("user:carol", "sec")
    /\ last.result = FALSE

-----------------------------------------------------------------------------
(* C10 - the empty principal.                                              *)

\* C10: with the empty principal a permission is allowed exactly when the
\* role of some binding of the resolved policy grants it, whatever the
\* members and the condition of that binding.
C10_EmptyPrincipalChecksRolesOnly ==
    (LastTest /\ last.principal = "") =>
        \A perm \in Range(last.permissions) :
            (perm \in Range(last.allowed))
              <=> \E i \in 1..Len(last.policy.bindings) :
                     roleGrants(last.policy.bindings[i], perm)

\* the only binding names user:alice and carries a condition that is false
\* for the resource, and the permission is allowed all the same
C10_Witness ==
    /\ LastTest
    /\ last.principal = ""
    /\ Len(last.policy.bindings) = 1
    /\ last.policy.bindings[1].condition # <<>>
    /\ ~evaluateCondition(last.policy.bindings[1].condition, LastCtx).result
    /\ "allUsers" \notin Range(last.policy.bindings[1].members)
    /\ last.allowed # <<>>

-----------------------------------------------------------------------------
(* C11 - write/read round trip.                                            *)

\* stored equals the submitted policy up to the etag and version 0 -> 1
EqualUpToEtagAndVersion(stored, submitted) ==
    /\ stored.bindings = submitted.bindings
    /\ stored.auditConfigs = submitted.auditConfigs
    /\ stored.version = (IF submitted.version = 0 THEN 1 ELSE submitted.version)

\* the step is a call that writes the entry of resource r
WritesTo(r) ==
    /\ nOps' = nOps + 1
    /\ \/ last'.op = "SetIamPolicy" /\ last'.resource = r /\ ~last'.err
       \/ last'.op = "LoadPolicies" /\ r \in DOMAIN last'.input
       \/ last'.op = "Clear"

\* a successful SetIamPolicy leaves the submitted policy under the resource
C11_WriteStoresInput ==
    (last.op = "SetIamPolicy" /\ ~last.err) =>
        /\ last.resource \in DOMAIN policies
        /\ EqualUpToEtagAndVersion(policies[last.resource], last.input)
        /\ last.result = policies[last.resource]

\* GetIamPolicy returns the entry stored under the resource
C11_ReadReturnsStored ==
    (last.op = "GetIamPolicy" /\ last.resource \in DOMAIN policies) =>
        last.result = policies[last.resource]

\* a step that is not a write to r leaves the entry of r as it is
C11_EntryStableWithoutWrite ==
    \A r \in StoreResources :
        ~WritesTo(r) =>
            /\ (r \in DOMAIN policies') = (r \in DOMAIN policies)
            /\ r \in DOMAIN policies => policies'[r] = policies[r]

\* C11: GetIamPolicy(resource) after SetIamPolicy(resource, policy), with no
\* write to the resource in between, returns the submitted policy: the same
\* bindings in the same order with their conditions and the same audit
\* configs, with the etag added and version 0 replaced by 1.
C11_RoundTrip ==
    /\ []C11_WriteStoresInput
    /\ []C11_ReadReturnsStored
    /\ [][C11_EntryStableWithoutWrite]_vars

\* the version-3 policy with a conditional binding, a second binding and an
\* audit config is read back
C11_Witness ==
    /\ last.op = "GetIamPolicy"
    /\ last.resource = "projects/p"
    /\ last.result.version = 3
    /\ last.result.bindings = << ViewerAliceProd, AccessorBob >>
    /\ last.result.auditConfigs = AuditReads
    /\ last.result.etag # <<>>

-----------------------------------------------------------------------------
(* C12 - the etag as a function of the content.                            *)

\* the semantic content of a policy
Content(policy) == << policy.version, policy.bindings, policy.auditConfigs >>

\* C12: the etags of two stored policies are equal exactly when their
\* contents (version, bindings, audit configs) are equal, whenever and
\* wherever they were written and whatever etag the submitted objects
\* carried.
C12_EtagIsFunctionOfContent ==
    \A r1, r2 \in DOMAIN policies :
        (Content(policies[r1]) = Content(policies[r2]))
            <=> (policies[r1].etag = policies[r2].etag)

-----------------------------------------------------------------------------
(* C13 - the rejected write.                                               *)

\* a version-3 policy with a binding whose condition has an empty expression
HasEmptyConditionAtVersion3(policy) ==
    /\ policy.version = 3
    /\ \E i \in 1..Len(policy.bindings) : policy.bindings[i].condition = << "" >>

\* SetIamPolicy fails exactly on such a policy
C13_FailsOnlyOnEmptyCondition ==
    last.op = "SetIamPolicy" =>
        (last.err <=> HasEmptyConditionAtVersion3(last.input))

\* a failing SetIamPolicy step leaves every entry of the store as it was
C13_FailedWriteChangesNothing ==
    (nOps' = nOps + 1 /\ last'.op = "SetIamPolicy" /\ last'.err) =>
        UNCHANGED <<policies, groups, customRoles>>

\* C13: SetIamPolicy of a version-3 policy with a binding whose condition
\* expression is empty returns an error and leaves the store unchanged, the
\* entry of the resource (or its absence) included; SetIamPolicy fails for
\* no other reason.
C13_RejectedWriteLeavesStore ==
    /\ []C13_FailsOnlyOnEmptyCondition
    /\ [][C13_FailedWriteChangesNothing]_vars

\* the write of projects/p is rejected while projects/p holds a policy
C13_Witness ==
    /\ last.op = "SetIamPolicy"
    /\ last.err
    /\ last.resource = "projects/p"
    /\ "projects/p" \in DOMAIN policies
    /\ policies["projects/p"].bindings = << ViewerAlice >>

-----------------------------------------------------------------------------
(* C14 - the stored policies after writes, bulk loads and Clear.           *)

\* C14: whatever SetIamPolicy, LoadPolicies and Clear calls were made, no
\* stored policy of version 3 has a binding whose condition is present with
\* an empty expression: LoadPolicies rejects such an entry as SetIamPolicy
\* does.
C14_NoEmptyConditionAtVersion3 ==
    \A r \in DOMAIN policies : ~HasEmptyConditionAtVersion3(policies[r])

-----------------------------------------------------------------------------
(* C15 - the versions of the stored policies.                              *)

\* some binding of the policy carries a condition
HasCondition(policy) ==
    \E i \in 1..Len(policy.bindings) : policy.bindings[i].condition # <<>>

\* C15: every stored policy has version 1 or 3, and version 3 whenever one
\* of its bindings carries a condition.
C15_VersionOneOrThree ==
    \A r \in DOMAIN policies :
        /\ policies[r].version \in {1, 3}
        /\ HasCondition(policies[r]) => policies[r].version = 3

-----------------------------------------------------------------------------
(* C16 - reading a resource that has no policy.                            *)

\* GetIamPolicy returns no error, and for a name that is not a key of the
\* store a policy of version 1 without bindings
C16_ReadOfAbsentIsEmpty ==
    last.op = "GetIamPolicy" =>
        /\ ~last.err
        /\ last.resource \notin DOMAIN policies =>
              /\ last.result.version = 1
              /\ last.result.bindings = <<>>

\* a GetIamPolicy step adds no entry: the store, which is all that policy
\* resolution reads, is as before
C16_ReadAddsNoEntry ==
    (nOps' = nOps + 1 /\ last'.op = "GetIamPolicy") =>
        UNCHANGED <<policies, groups, customRoles>>

\* C16: GetIamPolicy never fails; for a resource with no policy stored at
\* exactly that name it returns a policy of version 1 with no bindings, and
\* the call adds no entry to the store, so a later TestIamPermissions on the
\* resource resolves as before.
C16_ReadNeverFailsNorStores ==
    /\ []C16_ReadOfAbsentIsEmpty
    /\ [][C16_ReadAddsNoEntry]_vars

\* projects/p/secrets/s is read while only projects/p is stored: the read
\* returns the empty policy, decisions still use the policy of projects/p
C16_Witness ==
    /\ last.op = "GetIamPolicy"
    /\ last.resource = "projects/p/secrets/s"
    /\ DOMAIN policies = { "projects/p" }
    /\ last.result = Policy(1, <<>>, <<>>, <<>>)
    /\ resolvePolicy("projects/p/secrets/s") = policies["projects/p"]

-----------------------------------------------------------------------------
(* C17, C18, C19 - the transports.                                         *)

\* C17: a SetIamPolicy request with an empty resource, without a policy, or
\* with a version-3 policy that has a condition with an empty expression is
\* answered with InvalidArgument over gRPC and with HTTP 400 over REST,
\* never with an internal error.
C17_InvalidSetIsBadRequest ==
    (/\ last.op = "SetIamPolicy"
     /\ \/ last.resource = ""
        \/ last.policy = <<>>
        \/ HasEmptyConditionAtVersion3(last.policy)) =>
        /\ last.reply.code = "InvalidArgument"
        /\ last.transport = "rest" => last.reply.http = 400

\* C18: a TestIamPermissions request with an empty resource or an empty
\* list of permissions is answered with InvalidArgument on both transports
\* and carries no decision.
C18_EmptyTestIsRejected ==
    (/\ last.op = "TestIamPermissions"
     /\ \/ last.resource = ""
        \/ last.permissions = <<>>) =>
        /\ last.reply.code = "InvalidArgument"
        /\ last.reply.body = <<>>

\* C19: a REST TestIamPermissions request without the X-Emulator-Principal
\* header gets the allowed list a gRPC request without the
\* x-emulator-principal metadata gets for the same store, resource and
\* permissions: the list decided for the empty principal.
C19_MissingCarrierIsNoPrincipal ==
    (/\ last.op = "TestIamPermissions"
     /\ last.carrier = ""
     /\ last.reply.code = "OK") =>
        /\ last.reply.body =
              ServerTestIamPermissions([resource |-> last.resource,
                                        permissions |-> last.permissions],
                                       <<>>, last.now).body
        /\ last.reply.body =
              TestIamPermissionsAt(last.resource, "", last.permissions, last.now)

-----------------------------------------------------------------------------
(* C20 - expressions outside the grammar.                                  *)

HasSuffix(s, suffix) ==
    Len(s) >= Len(suffix) /\ SubSeq(s, Len(s) - Len(suffix) + 1, Len(s)) = suffix

\* s is head, a text without a double quote, then tail
QuotedForm(s, head, tail) ==
    /\ Len(s) >= Len(head) + Len(tail)
    /\ HasPrefix(s, head)
    /\ HasSuffix(s, tail)
    /\ ~Contains(SubSeq(s, Len(head) + 1, Len(s) - Len(tail)), "\"")

\* one of the four forms of the grammar
RecognizedForm(s) ==
    \/ QuotedForm(s, "resource.name.startsWith(\"", "\")")
    \/ QuotedForm(s, "resource.type == \"", "\"")
    \/ QuotedForm(s, "request.time < timestamp(\"", "\")")
    \/ QuotedForm(s, "request.time > timestamp(\"", "\")")

\* C20: a non-blank condition expression that is not one of the four
\* recognized forms evaluates to false, also when it contains a recognized
\* form (a negation, a != comparison, a compound), and the binding that
\* carries it denies the principal it matches.
C20_UnrecognizedExpressionIsFalse ==
    (/\ last.op = "evaluateCondition"
     /\ TrimSpace(last.expression) # ""
     /\ ~RecognizedForm(TrimSpace(last.expression))) =>
        /\ ~last.result.result
        /\ ~last.decision

-----------------------------------------------------------------------------
(* The built-in catalog looked up over the whole permission universe.  The *)
(* store starts with no custom role, or with a custom role of the name of  *)
(* a built-in one; every built-in role is asked for every permission the   *)
(* catalog knows.                                                          *)

\* every permission the built-in catalog names (the list of roles/owner)
PermissionUniverse == Range(builtInRoles["roles/owner"])

CatalogConfigs ==
    { EmptyMap,
      [ r \in { "roles/cloudkms.admin" } |-> << "cloudkms.keyRings.get" >> ] }

InitCatalog ==
    /\ policies = EmptyMap
    /\ groups = EmptyMap
    /\ customRoles \in CatalogConfigs
    /\ allowUnknownRoles = FALSE
    /\ readers = {}
    /\ calls = [c \in Callers |-> Idle]
    /\ nOps = 0
    /\ last = NoCall

CallCatalogLookup ==
    /\ last = NoCall
    /\ \E role \in DOMAIN builtInRoles, permission \in PermissionUniverse :
        /\ last' = [op |-> "catalogLookup", role |-> role,
                    permission |-> permission,
                    result |-> getRolePermissions(role, permission),
                    granted |-> roleGrants(Binding(role, <<>>, <<>>),
                                           permission)]
        /\ UNCHANGED <<storeVars, readers, calls, nOps>>

NextCatalog == CallCatalogLookup

SpecCatalog == InitCatalog /\ [][NextCatalog]_vars

-----------------------------------------------------------------------------
(* C21 - the permissions of roles/cloudkms.admin.                          *)

\* C21: when no custom role is defined under its name, roles/cloudkms.admin
\* grants every cloudkms.* permission of the permission universe except
\* cloudkms.keyRings.create, and does not grant cloudkms.keyRings.create.
C21_KmsAdminLacksKeyRingCreate ==
    (/\ last.op = "catalogLookup"
     /\ last.role = "roles/cloudkms.admin"
     /\ last.role \notin DOMAIN customRoles
     /\ HasPrefix(last.permission, "cloudkms.")) =>
        (last.granted <=> last.permission # "cloudkms.keyRings.create")

-----------------------------------------------------------------------------
(* SpecClear: a store that a configuration has filled (policies, the group *)
(* chain, custom roles), then cleared, loaded and read by one client at a  *)
(* time.  TestIamPermissions holds the read lock from its first line to    *)
(* its return, so among atomic writers it is one step.                     *)

DefinedRoleEng ==
    Binding("roles/custom.definedRole", << "group:eng" >>, <<>>)

ClearPolicyMaps ==
    { MapSet(EmptyMap, "projects/p",
             Policy(1, << ViewerAlice, DefinedRoleEng >>, <<>>, <<>>)),
      MapSet(MapSet(EmptyMap, "projects/p",
                    Policy(1, << DefinedRoleEng >>, <<>>, <<>>)),
             "projects/p/secrets/s",
             Policy(3, << ViewerAliceProd >>, <<>>, <<>>)) }

ClearResources == StoreResources \cup { "projects/p/secrets/prod-1" }

ClearPrincipals == { "", "user:alice" }

InitClear ==
    /\ \E loaded \in ClearPolicyMaps :
          policies = [r \in DOMAIN loaded |-> storedPolicy(loaded[r])]
    /\ groups = GroupChain
    /\ customRoles \in RoleConfigs \ { EmptyMap }
    /\ allowUnknownRoles = FALSE
    /\ readers = {}
    /\ calls = [c \in Callers |-> Idle]
    /\ nOps = 0
    /\ last = NoCall

StoreTestIamPermissions ==
    \E resource \in ClearResources, principal \in ClearPrincipals,
       permissions \in PermissionListInputs, now \in Clock :
        /\ nOps < MaxOps
        /\ nOps' = nOps + 1
        /\ last' = [op |-> "TestIamPermissions", resource |-> resource,
                    principal |-> principal, permissions |-> permissions,
                    now |-> now, policy |-> resolvePolicy(resource),
                    allowed |-> TestIamPermissionsAt(resource, principal,
                                                     permissions, now)]
        /\ UNCHANGED <<storeVars, readers, calls>>

NextClear ==
    \/ Clear
    \/ StoreLoadPolicies
    \/ LoadGroups
    \/ LoadCustomRoles
    \/ StoreGetIamPolicy
    \/ StoreTestIamPermissions

SpecClear == InitClear /\ [][NextClear]_vars

-----------------------------------------------------------------------------
(* C22 - Clear wipes the store.                                            *)

\* the three maps are empty
Wiped ==
    /\ policies = EmptyMap
    /\ groups = EmptyMap
    /\ customRoles = EmptyMap

\* every read of the store answers as an empty store does
ObservablyEmpty ==
    \A resource \in ClearResources :
        /\ resolvePolicy(resource) = <<>>
        /\ \A principal \in ClearPrincipals,
              permissions \in PermissionListInputs, now \in Clock :
              TestIamPermissionsAt(resource, principal, permissions, now) = <<>>

C22_ClearLeavesNothing == last.op = "Clear" => (Wiped /\ ObservablyEmpty)

\* a read of a store without policies changes nothing and answers with the
\* empty version-1 policy, or with an empty allowed list
C22_ReadOfClearedStoreIsEmpty ==
    (policies = EmptyMap /\ last'.op \in { "GetIamPolicy", "TestIamPermissions" }) =>
        /\ UNCHANGED storeVars
        /\ last'.op = "GetIamPolicy" =>
              (~last'.err /\ last'.result = Policy(1, <<>>, <<>>, <<>>))
        /\ last'.op = "TestIamPermissions" => last'.allowed = <<>>

\* C22: Clear empties the policies, the groups and the custom roles that
\* were loaded before it; from then until a write or a load, GetIamPolicy
\* returns the empty version-1 policy for every resource and
\* TestIamPermissions an empty list for every principal and permission list.
C22_ClearWipesStore ==
    []C22_ClearLeavesNothing /\ [][C22_ReadOfClearedStoreIsEmpty]_vars

\* a loaded store was cleared and alice, whom the loaded policy allowed,
\* was then tested at a resource under projects/p
C22_Witness ==
    /\ nOps = 2
    /\ Wiped
    /\ last.op = "TestIamPermissions"
    /\ last.principal = "user:alice"
    /\ last.resource = "projects/p/secrets/prod-1"
    /\ last.permissions = << "secretmanager.secrets.get" >>
    /\ last.allowed = <<>>

-----------------------------------------------------------------------------
(* SpecEtag: read-modify-write by two clients.  A client reads the policy  *)
(* of a resource and keeps what GetIamPolicy returned; it then writes the  *)
(* policy it holds with one more binding, the etag it read still in it.    *)

EtagResources == { "projects/p" }

EtagBindings == { ViewerAlice, AccessorBob, DefinedRoleEng }

InitEtag ==
    /\ \E policy \in { Policy(1, << ViewerAlice >>, <<>>, <<>>),
                       Policy(3, << ViewerAliceProd >>, <<>>, <<>>) } :
          policies = MapSet(EmptyMap, "projects/p", storedPolicy(policy))
    /\ groups = EmptyMap
    /\ customRoles = EmptyMap
    /\ allowUnknownRoles = FALSE
    /\ readers = {}
    /\ calls = [c \in Callers |-> Idle]
    /\ nOps = 0
    /\ last = NoCall

\* client c calls GetIamPolicy and holds the policy returned
ClientGetIamPolicy(c) ==
    /\ calls[c] = Idle
    /\ \E resource \in EtagResources :
        LET result == IF resource \in DOMAIN policies
                      THEN policies[resource]
                      ELSE Policy(1, <<>>, <<>>, <<>>)
        IN  /\ last' = [op |-> "GetIamPolicy", resource |-> resource,
                        err |-> FALSE, result |-> result]
            /\ calls' = [calls EXCEPT ![c] =
                            [pc |-> "holding", resource |-> resource,
                             policy |-> result]]
    /\ UNCHANGED <<storeVars, readers, nOps>>

\* client c writes back the policy it holds, one binding added
ClientSetIamPolicy(c) ==
    /\ calls[c].pc = "holding"
    /\ \E b \in EtagBindings :
        SetIamPolicyOf(calls[c].resource,
                       [calls[c].policy EXCEPT !.bindings = @ \o << b >>])

NextEtag ==
    \/ \E c \in Callers : ClientGetIamPolicy(c)
    \/ \E c \in Callers : ClientSetIamPolicy(c)

SpecEtag == InitEtag /\ [][NextEtag]_vars

-----------------------------------------------------------------------------
(* C23 - the etag as optimistic concurrency control.                       *)

\* C23: a SetIamPolicy whose policy carries an etag other than the etag of
\* the policy now stored at the resource (another client wrote since the
\* etag was read) is rejected and leaves the stored policy as it is.
C23_StaleEtagWriteIsRejected ==
    [][ (/\ nOps' = nOps + 1
         /\ last'.op = "SetIamPolicy"
         /\ last'.resource \in DOMAIN policies
         /\ last'.input.etag # <<>>
         /\ last'.input.etag # policies[last'.resource].etag) =>
            (last'.err /\ policies' = policies) ]_vars

-----------------------------------------------------------------------------
(* Tracing.  TestIamPermissions and hasPermission take a trace flag and    *)
(* write slog lines when it is set; the gRPC server then emits one event   *)
(* per permission to its trace writer, whose errors it discards.  The      *)
(* traced operators below follow the same code as the untraced ones above  *)
(* and return the lines written next to the decision.                      *)

\* a slog.Info line
LogLine(message, decision, permission) ==
    [message |-> message, decision |-> decision, permission |-> permission]

TracedDecision(decision, reason, log) ==
    [decision |-> decision, reason |-> reason, log |-> log]

\* hasPermission lines 379-414 with the trace flag
RECURSIVE principalLoopTraced(_, _, _, _, _, _)
principalLoopTraced(bindings, i, principal, permission, evalCtx, trace) ==
    IF i > Len(bindings)
    THEN TracedDecision(FALSE, "no matching binding found for principal", <<>>)
    ELSE LET binding == bindings[i]
         IN  IF ~roleGrants(binding, permission)
             THEN principalLoopTraced(bindings, i + 1, principal, permission,
                                      evalCtx, trace)
             ELSE IF \E m \in 1..Len(binding.members) :
                        principalMatches(principal, binding.members[m])
             THEN IF binding.condition # <<>>
                  THEN LET c   == evaluateCondition(binding.condition, evalCtx)
                           log == IF trace
                                  THEN << LogLine("condition evaluation",
                                                  c.result, permission) >>
                                  ELSE <<>>
                       IN  IF ~c.result
                           THEN TracedDecision(FALSE, "condition failed", log)
                           ELSE TracedDecision(TRUE, "matched binding (condition)",
                                               log)
                  ELSE TracedDecision(TRUE, "matched binding", <<>>)
             ELSE principalLoopTraced(bindings, i + 1, principal, permission,
                                      evalCtx, trace)

hasPermissionTraced(policy, principal, permission, evalCtx, trace) ==
    IF principal = ""
    THEN LET d == noPrincipalLoop(policy.bindings, 1, permission)
         IN  TracedDecision(d.decision, d.reason, <<>>)
    ELSE principalLoopTraced(policy.bindings, 1, principal, permission,
                             evalCtx, trace)

\* a result of the traced TestIamPermissions: the list and the lines written
Traced(allowed, log) == [allowed |-> allowed, log |-> log]

\* the loop appending an allowed permission only while tracing
RECURSIVE allowedLoopTraced_AppendsWhenTracing(_, _, _, _, _)
allowedLoopTraced_AppendsWhenTracing(policy, principal, permissions, evalCtx, trace) ==
    IF permissions = <<>>
    THEN Traced(<<>>, <<>>)
    ELSE LET perm == Head(permissions)
             d    == hasPermissionTraced(policy, principal, perm, evalCtx, trace)
             rest == allowedLoopTraced_AppendsWhenTracing(policy, principal,
                                           Tail(permissions), evalCtx, trace)
         IN  Traced((IF d.decision /\ trace THEN << perm >> ELSE <<>>)
                        \o rest.allowed,
                    d.log
                        \o (IF trace
                            THEN << LogLine("authz decision", d.decision, perm) >>
                            ELSE <<>>)
                        \o rest.log)

\* TestIamPermissions lines 178-192
RECURSIVE allowedLoopTraced(_, _, _, _, _)
allowedLoopTraced(policy, principal, permissions, evalCtx, trace) ==
    IF permissions = <<>>
    THEN Traced(<<>>, <<>>)
    ELSE LET perm == Head(permissions)
             d    == hasPermissionTraced(policy, principal, perm, evalCtx, trace)
             rest == allowedLoopTraced(policy, principal, Tail(permissions),
                                       evalCtx, trace)
         IN  Traced((IF d.decision THEN << perm >> ELSE <<>>) \o rest.allowed,
                    d.log
                        \o (IF trace
                            THEN << LogLine("authz decision", d.decision, perm) >>
                            ELSE <<>>)
                        \o rest.log)

\* Storage.TestIamPermissions with its fourth argument
TestIamPermissionsTraced(resource, principal, permissions, now, trace) ==
    LET policy == resolvePolicy(resource)
    IN  IF policy = <<>>
        THEN Traced(<<>>, IF trace
                          THEN << LogLine("authz decision", FALSE, "") >>
                          ELSE <<>>)
        ELSE allowedLoopTraced(policy, principal, permissions,
                               EvalContext(resource,
                                           extractResourceType(resource), now),
                               trace)

\* Server.emitTraceEvents: what reaches the sink.  writer is "nil" (no trace
\* writer), "ok", or "failing" (Emit and Flush return an error, dropped by
\* the blank assignments).
emitTraceEvents(permissions, allowed, writer) ==
    IF writer = "nil"
    THEN <<>>
    ELSE IF writer = "failing"
    THEN <<>>
    ELSE [i \in 1..Len(permissions) |->
            [permission |-> permissions[i],
             outcome |-> IF permissions[i] \in Range(allowed)
                         THEN "ALLOW" ELSE "DENY"]]

TracePolicyInputs ==
    { Policy(1, << ViewerAlice >>, <<>>, <<>>),
      Policy(3, << ViewerAliceProd, AccessorBob >>, <<>>, <<>>),
      Policy(3, << DefinedRoleEng, ViewerAliceProd >>, <<>>, <<>>) }

TracePrincipals == { "", "user:alice", "user:bob" }

WriterInputs == { "nil", "ok", "failing" }

InitTrace ==
    /\ \E policy \in TracePolicyInputs :
          policies = MapSet(EmptyMap, "projects/p", storedPolicy(policy))
    /\ groups = GroupChain
    /\ customRoles \in RoleConfigs
    /\ allowUnknownRoles = FALSE
    /\ readers = {}
    /\ calls = [c \in Callers |-> Idle]
    /\ nOps = 0
    /\ last = NoCall

\* Server.TestIamPermissions lines 214-232: the store is asked with
\* s.trace || s.explain, then the events are emitted
TracedTestIamPermissions ==
    /\ last = NoCall
    /\ \E resource \in RequestResources \cup { "organizations/o" },
          principal \in TracePrincipals,
          permissions \in PermissionListInputs, now \in Clock,
          trace \in BOOLEAN, explain \in BOOLEAN, writer \in WriterInputs :
        LET r == TestIamPermissionsTraced(resource, principal, permissions,
                                          now, trace \/ explain)
        IN  last' = [op |-> "TracedTestIamPermissions", resource |-> resource,
                     principal |-> principal, permissions |-> permissions,
                     now |-> now, trace |-> trace, explain |-> explain,
                     writer |-> writer, allowed |-> r.allowed, log |-> r.log,
                     events |-> emitTraceEvents(permissions, r.allowed, writer)]
    /\ UNCHANGED <<storeVars, readers, calls, nOps>>

NextTrace == TracedTestIamPermissions

SpecTrace == InitTrace /\ [][NextTrace]_vars

-----------------------------------------------------------------------------
(* C24 - tracing does not perturb the decision.                            *)

C24_SameAllowedList ==
    last.op = "TracedTestIamPermissions" =>
        last.allowed = TestIamPermissionsTraced(last.resource, last.principal,
                                                last.permissions, last.now,
                                                FALSE).allowed

C24_StoreUntouched ==
    last'.op = "TracedTestIamPermissions" => UNCHANGED storeVars

\* C24: TestIamPermissions returns the list it returns with tracing off,
\* and leaves the store as it was, whether the trace flags are set or not
\* and whether the trace writer is absent, working or failing.
C24_TracingNeverPerturbs ==
    []C24_SameAllowedList /\ [][C24_StoreUntouched]_vars

\* tracing on, a condition evaluated and logged, a permission allowed, and
\* a writer that fails
C24_Witness ==
    /\ last.op = "TracedTestIamPermissions"
    /\ last.trace
    /\ last.writer = "failing"
    /\ last.allowed # <<>>
    /\ \E i \in 1..Len(last.log) : last.log[i].message = "condition evaluation"
    /\ last.events = <<>>

-----------------------------------------------------------------------------
(* SpecInherit: one conditional policy stored at projects/test and asked   *)
(* about at the project and below it.                                      *)

CiAccount == "serviceAccount:ci@test.iam.gserviceaccount.com"

ProdSecretsOnly == "resource.name.startsWith(\"projects/test/secrets/prod-\")"

InheritConditions ==
    { ProdSecretsOnly,
      "resource.name.startsWith(\"projects/test\")",
      "resource.type == \"SECRET\"",
      "resource.type == \"UNKNOWN\"" }

InheritResources ==
    { "projects/test",
      "projects/test/secrets/prod-key",
      "projects/test/secrets/staging-key",
      "projects/test/keyRings/ring" }

InheritPrincipals == { "", CiAccount, "user:alice" }

InheritPermissions ==
    { << "secretmanager.versions.access" >>,
      << "secretmanager.secrets.get" >>,
      << "secretmanager.secrets.get", "secretmanager.versions.access" >> }

InitInherit ==
    /\ \E expression \in InheritConditions :
          policies = MapSet(EmptyMap, "projects/test",
                        storedPolicy(Policy(3,
                            << Binding("roles/secretmanager.secretAccessor",
                                       << CiAccount >>, << expression >>) >>,
                            <<>>, <<>>)))
    /\ groups = EmptyMap
    /\ customRoles = EmptyMap
    /\ allowUnknownRoles = FALSE
    /\ readers = {}
    /\ calls = [c \in Callers |-> Idle]
    /\ nOps = 0
    /\ last = NoCall

CallInheritedTestIamPermissions ==
    /\ last = NoCall
    /\ \E resource \in InheritResources, principal \in InheritPrincipals,
          permissions \in InheritPermissions, now \in Clock :
        /\ last' = [op |-> "TestIamPermissions", resource |-> resource,
                    principal |-> principal, permissions |-> permissions,
                    now |-> now, policy |-> resolvePolicy(resource),
                    allowed |-> TestIamPermissionsAt(resource, principal,
                                                     permissions, now)]
        /\ UNCHANGED <<storeVars, readers, calls, nOps>>

NextInherit == CallInheritedTestIamPermissions

SpecInherit == InitInherit /\ [][NextInherit]_vars

-----------------------------------------------------------------------------
(* C25 - conditions of an inherited policy see the requested resource.     *)

\* the policy used was found at an ancestor of the requested resource
Inherited ==
    /\ last.op = "TestIamPermissions"
    /\ last.resource \notin DOMAIN policies
    /\ last.policy # <<>>

\* the condition of binding b holds for the requested resource
HoldsAtRequested(b) ==
    evaluateCondition(b.condition,
                      EvalContext(last.resource,
                                  extractResourceType(last.resource),
                                  last.now)).result

C25_RequestedNameDecides ==
    (Inherited /\ last.principal # "") =>
        LET b == last.policy.bindings[1]
        IN  \A i \in 1..Len(last.permissions) :
               last.permissions[i] \in Range(last.allowed) <=>
                   /\ roleGrants(b, last.permissions[i])
                   /\ \E m \in 1..Len(b.members) :
                         principalMatches(last.principal, b.members[m])
                   /\ HoldsAtRequested(b)

C25_ProdAllowedStagingDenied ==
    (/\ Inherited
     /\ last.policy.bindings[1].condition = << ProdSecretsOnly >>
     /\ last.principal = CiAccount
     /\ last.permissions = << "secretmanager.versions.access" >>) =>
        /\ last.resource = "projects/test/secrets/prod-key" =>
              last.allowed = << "secretmanager.versions.access" >>
        /\ last.resource = "projects/test/secrets/staging-key" =>
              last.allowed = <<>>

\* C25: when the policy used is inherited from an ancestor, each binding
\* condition is evaluated against the name and derived type of the
\* requested resource; with the projects/test policy conditioned on
\* startsWith("projects/test/secrets/prod-") the principal is allowed at
\* projects/test/secrets/prod-key and denied at .../staging-key.
C25_ConditionSeesRequestedResource ==
    C25_RequestedNameDecides /\ C25_ProdAllowedStagingDenied

\* the prod- condition of the project policy let the account in at prod-key
C25_Witness ==
    /\ Inherited
    /\ last.policy.bindings[1].condition = << ProdSecretsOnly >>
    /\ last.principal = CiAccount
    /\ last.resource = "projects/test/secrets/prod-key"
    /\ last.allowed = << "secretmanager.versions.access" >>
    /\ ~HasPrefix("projects/test", "projects/test/secrets/prod-")

-----------------------------------------------------------------------------
(* SpecKeys: the keys resolvePolicy looks up.  The store holds policies at *)
(* some of the keys projects, projects/p and projects/p/secrets/s (the     *)
(* store accepts any string as a key); names of every length are resolved. *)

\* the keys the `for len(parts) > 2` loop looks up, until one is stored
RECURSIVE consultedParents(_)
consultedParents(parts) ==
    IF Len(parts) > 2
    THEN LET shorter        == SubSeq(parts, 1, Len(parts) - 2)
             parentResource == Join(shorter, "/")
         IN  IF parentResource \in DOMAIN policies
             THEN << parentResource >>
             ELSE << parentResource >> \o consultedParents(shorter)
    ELSE <<>>

\* the keys resolvePolicy looks up for a resource, in order
consultedKeys(resource) ==
    IF resource \in DOMAIN policies
    THEN << resource >>
    ELSE << resource >> \o consultedParents(Split(resource, "/"))

KeyInputs == { "projects", "projects/p", "projects/p/secrets/s" }

NameInputs ==
    { "projects", "projects/p", "projects/p/secrets", "projects/p/secrets/s",
      "projects/p/secrets/s/versions", "projects/p/secrets/s/versions/v",
      "projects/q", "projects/q/keyRings", "projects/q/keyRings/r",
      "projects/q/keyRings/r/cryptoKeys", "projects/q/keyRings/r/cryptoKeys/k",
      "organizations/o", "organizations/o/folders" }

InitKeys ==
    /\ \E keys \in SUBSET KeyInputs :
          policies = [k \in keys |->
                         storedPolicy(Policy(1, << ViewerAlice >>, <<>>, <<>>))]
    /\ groups = EmptyMap
    /\ customRoles = EmptyMap
    /\ allowUnknownRoles = FALSE
    /\ readers = {}
    /\ calls = [c \in Callers |-> Idle]
    /\ nOps = 0
    /\ last = NoCall

CallResolvePolicy ==
    /\ last = NoCall
    /\ \E resource \in NameInputs :
        /\ last' = [op |-> "resolvePolicy", resource |-> resource,
                    consulted |-> consultedKeys(resource),
                    policy |-> resolvePolicy(resource)]
        /\ UNCHANGED <<storeVars, readers, calls, nOps>>

NextKeys == CallResolvePolicy

SpecKeys == InitKeys /\ [][NextKeys]_vars

-----------------------------------------------------------------------------
(* C26 - the keys consulted by policy resolution.                          *)

Segments(resource) == Split(resource, "/")

\* C26: for a resource name of at least two segments, the keys consulted
\* are the name itself, then each ancestor obtained by stripping two more
\* trailing segments, and none of them has fewer than two segments: the
\* project root is the uppermost key, for even and odd names alike.
C26_ProjectRootIsUppermostKey ==
    (last.op = "resolvePolicy" /\ Len(Segments(last.resource)) >= 2) =>
        /\ last.consulted[1] = last.resource
        /\ \A i \in 2..Len(last.consulted) :
              last.consulted[i] =
                  Join(SubSeq(Segments(last.resource), 1,
                              Len(Segments(last.resource)) - 2 * (i - 1)), "/")
        /\ \A i \in 1..Len(last.consulted) :
              Len(Segments(last.consulted[i])) >= 2
        /\ (last.policy # <<>>) =>
              \E k \in DOMAIN policies :
                  Len(Segments(k)) >= 2 /\ last.policy = policies[k]
                      /\ k \in Range(last.consulted)

-----------------------------------------------------------------------------
(* C27 - the first granting, matching binding decides.                     *)

\* the indexes of the bindings of the recorded policy whose role grants the
\* permission and that have a member matching the recorded principal
Candidates(perm) ==
    { i \in 1..Len(last.policy.bindings) :
        GrantsAndMatches(last.policy.bindings[i], last.principal, perm) }

\* binding b has no condition, or its condition evaluates to true
ConditionHolds(b) ==
    b.condition = <<>> \/ evaluateCondition(b.condition, LastCtx).result

\* C27: for a non-empty principal a permission is allowed exactly when the
\* first binding, in stored order, whose role grants it and that has a
\* member matching the principal exists and has no condition or a condition
\* that evaluates to true; later bindings are not consulted.
C27_FirstCandidateDecides ==
    (LastTest /\ last.principal # "") =>
        \A perm \in Range(last.permissions) :
            perm \in Range(last.allowed) <=>
                /\ Candidates(perm) # {}
                /\ ConditionHolds(last.policy.bindings[Min(Candidates(perm))])

\* two candidates: the first has no condition and allows, the condition of
\* the second evaluates to false and is not consulted
C27_Witness ==
    /\ LastTest
    /\ last.principal = "user:alice"
    /\ last.permissions = << "secretmanager.secrets.get" >>
    /\ last.allowed = << "secretmanager.secrets.get" >>
    /\ Candidates("secretmanager.secrets.get") = { 1, 2 }
    /\ last.policy.bindings[1].condition = <<>>
    /\ ~ConditionHolds(last.policy.bindings[2])

-----------------------------------------------------------------------------
(* SpecReload: the configuration watcher next to a client.  On a write     *)
(* event watchConfig runs loadConfig, which calls LoadPolicies, then       *)
(* LoadGroups when the file has groups, then LoadCustomRoles when it has   *)
(* roles; each call takes and releases the write lock on its own.  Between *)
(* two of them a TestIamPermissions call can take the read lock, make all  *)
(* its decisions and return.  The watcher's position is calls["watcher"];  *)
(* it keeps the store it found when the event arrived.                     *)

Watcher == "watcher"

\* config.Config after LoadFromFile and ToPolicies
Config(policyMap, groupMap, roleMap) ==
    [policies |-> policyMap, groups |-> groupMap, roles |-> roleMap]

ViewerOf(member) == Binding("roles/viewer", << member >>, <<>>)

ConfigInputs ==
    { Config(MapSet(EmptyMap, "projects/p",
                    Policy(1, << ViewerOf("group:eng") >>, <<>>, <<>>)),
             [g \in { "eng" } |-> << "user:alice" >>],
             EmptyMap),
      Config(MapSet(EmptyMap, "projects/p",
                    Policy(1, << ViewerOf("group:staff") >>, <<>>, <<>>)),
             [g \in { "staff" } |-> << "user:alice" >>],
             [r \in { "roles/custom.definedRole" } |->
                 << "custom.permission.read" >>]),
      Config(MapSet(EmptyMap, "projects/q",
                    Policy(1, << ViewerOf("user:bob") >>, <<>>, <<>>)),
             EmptyMap,
             EmptyMap) }

ReloadResources == { "projects/p/secrets/s", "projects/q" }

ReloadPrincipals == { "user:alice", "user:bob" }

InitReload ==
    /\ policies = EmptyMap
    /\ groups = EmptyMap
    /\ customRoles = EmptyMap
    /\ allowUnknownRoles = FALSE
    /\ readers = {}
    /\ calls = [c \in Callers \cup { Watcher } |-> Idle]
    /\ nOps = 0
    /\ last = NoCall

\* watchConfig receives a write event; loadConfig reads the file
WatcherEvent ==
    /\ calls[Watcher] = Idle
    /\ nOps < MaxOps
    /\ nOps' = nOps + 1
    /\ \E cfg \in ConfigInputs :
          calls' = [calls EXCEPT ![Watcher] =
                       [pc |-> "LoadPolicies", cfg |-> cfg,
                        found |-> <<policies, groups, customRoles>>]]
    /\ UNCHANGED <<storeVars, readers, last>>

\* loadConfig: iamServer.LoadPolicies(policies)
WatcherLoadPolicies ==
    /\ calls[Watcher].pc = "LoadPolicies"
    /\ Lock
    /\ LET loaded == calls[Watcher].cfg.policies
       IN  policies' = [r \in DOMAIN policies \cup DOMAIN loaded |->
                          IF r \in DOMAIN loaded
                          THEN storedPolicy(loaded[r]) ELSE policies[r]]
    /\ calls' = [calls EXCEPT ![Watcher].pc = "LoadGroups"]
    /\ UNCHANGED <<groups, customRoles, allowUnknownRoles, readers, nOps, last>>

\* loadConfig: if len(cfg.Groups) > 0 { iamServer.LoadGroups(groups) }
WatcherLoadGroups ==
    /\ calls[Watcher].pc = "LoadGroups"
    /\ Lock
    /\ groups' = IF calls[Watcher].cfg.groups # EmptyMap
                 THEN calls[Watcher].cfg.groups ELSE groups
    /\ calls' = [calls EXCEPT ![Watcher].pc = "LoadCustomRoles"]
    /\ UNCHANGED <<policies, customRoles, allowUnknownRoles, readers, nOps, last>>

\* loadConfig: if len(cfg.Roles) > 0 { iamServer.LoadCustomRoles(roles) },
\* and the return to the watcher's loop
WatcherLoadCustomRoles ==
    /\ calls[Watcher].pc = "LoadCustomRoles"
    /\ Lock
    /\ customRoles' = IF calls[Watcher].cfg.roles # EmptyMap
                      THEN calls[Watcher].cfg.roles ELSE customRoles
    /\ last' = [op |-> "loadConfig", cfg |-> calls[Watcher].cfg,
                found |-> calls[Watcher].found]
    /\ calls' = [calls EXCEPT ![Watcher] = Idle]
    /\ UNCHANGED <<policies, groups, allowUnknownRoles, readers, nOps>>

\* a client's TestIamPermissions, from RLock to RUnlock
ReloadTestIamPermissions ==
    /\ \E resource \in ReloadResources, principal \in ReloadPrincipals,
          now \in Clock :
        last' = [op |-> "TestIamPermissions", resource |-> resource,
                 principal |-> principal,
                 permissions |-> << "secretmanager.secrets.get" >>,
                 now |-> now, policy |-> resolvePolicy(resource),
                 allowed |-> TestIamPermissionsAt(resource, principal,
                                 << "secretmanager.secrets.get" >>, now),
                 watcher |-> calls[Watcher]]
    /\ UNCHANGED <<storeVars, readers, calls, nOps>>

NextReload ==
    \/ WatcherEvent
    \/ WatcherLoadPolicies
    \/ WatcherLoadGroups
    \/ WatcherLoadCustomRoles
    \/ ReloadTestIamPermissions

SpecReload == InitReload /\ [][NextReload]_vars

-----------------------------------------------------------------------------
(* C28 - decisions during a reload.                                        *)

\* the store loadConfig leaves when it runs from store `found` with cfg
Reloaded(found, cfg) ==
    << [r \in DOMAIN found[1] \cup DOMAIN cfg.policies |->
          IF r \in DOMAIN cfg.policies
          THEN storedPolicy(cfg.policies[r]) ELSE found[1][r]],
       IF cfg.groups # EmptyMap THEN cfg.groups ELSE found[2],
       IF cfg.roles # EmptyMap THEN cfg.roles ELSE found[3] >>

\* C28: a TestIamPermissions call that runs while loadConfig is between its
\* Load* calls decides against the store as the reload found it or as the
\* reload leaves it, never against the new policies together with the old
\* groups or the old custom roles.
C28_DecisionSeesWholeConfiguration ==
    (last.op = "TestIamPermissions" /\ last.watcher # Idle
        /\ calls[Watcher] = last.watcher) =>
        \/ <<policies, groups, customRoles>> = last.watcher.found
        \/ <<policies, groups, customRoles>> =
               Reloaded(last.watcher.found, last.watcher.cfg)

-----------------------------------------------------------------------------
(* C29 - the store after a reload.                                         *)

\* C29: when loadConfig has completed, the policies, the groups and the
\* custom roles of the store are exactly those of the configuration just
\* loaded: nothing of the previous configuration that the new one lacks
\* (a policy, a group, a custom role, a whole section) is left.
C29_StoreIsNewConfiguration ==
    (last.op = "loadConfig" /\ calls[Watcher] = Idle) =>
        /\ policies = [r \in DOMAIN last.cfg.policies |->
                          storedPolicy(last.cfg.policies[r])]
        /\ groups = last.cfg.groups
        /\ customRoles = last.cfg.roles

-----------------------------------------------------------------------------
(* SpecAlias: the objects callers and store have in common.  SetIamPolicy  *)
(* stores the *iampb.Policy it was passed and returns that same pointer;   *)
(* GetIamPolicy returns the pointer held in the map; LoadGroups keeps the  *)
(* map it was passed.  calls[c] says which object of the store caller c    *)
(* still has a reference to; a later write of the same key puts another    *)
(* object into the store and the reference then no longer reaches it.      *)

AliasResources == { "projects/p", "projects/p/secrets/s" }

AliasPolicies ==
    { Policy(1, << ViewerOf("user:alice") >>, <<>>, <<>>),
      Policy(0, << AccessorBob >>, <<>>, <<>>) }

AliasGroups == { [g \in { "eng" } |-> << "user:alice" >>] }

\* caller c has a reference to the policy object stored at key
HoldsPolicy(c, key) ==
    calls[c].pc = "holding" /\ calls[c].object = "policy" /\ calls[c].key = key

\* SetIamPolicy(resource, policy) by caller c, who keeps policy (the result
\* is the same pointer)
AliasSetIamPolicy(c) ==
    \E resource \in AliasResources, policy \in AliasPolicies :
        /\ nOps < MaxOps
        /\ Lock
        /\ nOps' = nOps + 1
        /\ policies' = MapSet(policies, resource, storedPolicy(policy))
        /\ last' = [op |-> "SetIamPolicy", resource |-> resource,
                    input |-> policy, err |-> FALSE,
                    result |-> storedPolicy(policy)]
        /\ calls' = [d \in DOMAIN calls |->
                        IF d = c
                        THEN [pc |-> "holding", object |-> "policy",
                              key |-> resource]
                        ELSE IF HoldsPolicy(d, resource) THEN Idle
                        ELSE calls[d]]
        /\ UNCHANGED <<groups, customRoles, allowUnknownRoles, readers>>

\* GetIamPolicy(resource) by caller c: the stored pointer is returned
AliasGetIamPolicy(c) ==
    \E resource \in AliasResources :
        /\ nOps < MaxOps
        /\ nOps' = nOps + 1
        /\ last' = [op |-> "GetIamPolicy", resource |-> resource, err |-> FALSE,
                    result |-> IF resource \in DOMAIN policies
                               THEN policies[resource]
                               ELSE Policy(1, <<>>, <<>>, <<>>)]
        /\ calls' = [calls EXCEPT ![c] =
                        IF resource \in DOMAIN policies
                        THEN [pc |-> "holding", object |-> "policy",
                              key |-> resource]
                        ELSE Idle]
        /\ UNCHANGED <<storeVars, readers>>

\* LoadGroups(groups) by caller c, who keeps the map
AliasLoadGroups(c) ==
    \E loaded \in AliasGroups :
        /\ nOps < MaxOps
        /\ Lock
        /\ nOps' = nOps + 1
        /\ groups' = loaded
        /\ last' = [op |-> "LoadGroups", input |-> loaded]
        /\ calls' = [d \in DOMAIN calls |->
                        IF d = c
                        THEN [pc |-> "holding", object |-> "groups",
                              key |-> ""]
                        ELSE IF calls[d].pc = "holding"
                                /\ calls[d].object = "groups" THEN Idle
                        ELSE calls[d]]
        /\ UNCHANGED <<policies, customRoles, allowUnknownRoles, readers>>

\* caller c appends a binding to the policy it has a reference to, or adds
\* a member to a group of the map it has a reference to; no store method
\* is called and no lock is taken
CallerModifies(c) ==
    /\ calls[c].pc = "holding"
    /\ nOps < MaxOps
    /\ nOps' = nOps + 1
    /\ IF calls[c].object = "policy"
       THEN /\ policies' = [policies EXCEPT ![calls[c].key].bindings =
                               @ \o << ViewerOf("allUsers") >>]
            /\ groups' = groups
       ELSE /\ groups' = [g \in DOMAIN groups |->
                             groups[g] \o << "user:mallory" >>]
            /\ policies' = policies
    /\ last' = [op |-> "callerModifies", object |-> calls[c].object,
                key |-> calls[c].key]
    /\ UNCHANGED <<customRoles, allowUnknownRoles, readers, calls>>

AliasTestIamPermissions ==
    \E resource \in AliasResources, principal \in { "user:mallory" },
       now \in Clock :
        /\ nOps < MaxOps
        /\ nOps' = nOps + 1
        /\ last' = [op |-> "TestIamPermissions", resource |-> resource,
                    principal |-> principal,
                    permissions |-> << "secretmanager.secrets.get" >>,
                    now |-> now, policy |-> resolvePolicy(resource),
                    allowed |-> TestIamPermissionsAt(resource, principal,
                                    << "secretmanager.secrets.get" >>, now)]
        /\ UNCHANGED <<storeVars, readers, calls>>

NextAlias ==
    \/ \E c \in Callers : AliasSetIamPolicy(c)
    \/ \E c \in Callers : AliasGetIamPolicy(c)
    \/ \E c \in Callers : AliasLoadGroups(c)
    \/ \E c \in Callers : CallerModifies(c)
    \/ AliasTestIamPermissions

SpecAlias == Init /\ [][NextAlias]_vars

-----------------------------------------------------------------------------
(* C30 - the store changes only through its write operations.             *)

WriteOperations ==
    { "SetIamPolicy", "LoadPolicies", "LoadGroups", "LoadCustomRoles", "Clear" }

\* C30: the policies, groups and custom roles of the store change only in
\* a step of SetIamPolicy, LoadPolicies, LoadGroups, LoadCustomRoles or
\* Clear; a caller changing an object it passed to a write, or a policy it
\* got from SetIamPolicy or GetIamPolicy, changes nothing later reads see.
C30_StoreChangesOnlyThroughWrites ==
    [][ <<policies, groups, customRoles>>' # <<policies, groups, customRoles>>
            => last'.op \in WriteOperations ]_vars

====
